---- MODULE Spec2Model ----
(***************************************************************************)
(* Chatten Compute-Fi contract (src/contracts/chatten_token.py): the       *)
(* ledger, the swap engine, the lock subsystem, the pricing oracle, the    *)
(* provider registry and the access-control layer, as a state machine      *)
(* over the contract's key-value storage.                                  *)
(*                                                                         *)
(* An invocation is a transaction of the Neo VM: a failing `assert` faults *)
(* the VM and every write of the transaction is discarded.  An external    *)
(* call (GAS.transfer to a contract, call_contract of onNEP11Payment)      *)
(* hands control to the callee, which may call back into this contract     *)
(* before it returns; `stack` holds the invocations suspended that way.    *)
(***************************************************************************)
EXTENDS Integers, Sequences, FiniteSets, TLC

VARIABLES
    store,      \* the contract's storage, plus the GAS the ledger holds for it
    saved,      \* the storage as the transaction in flight found it
    stack,      \* suspended invocations of the transaction in flight
    height,     \* current_index(): the block height
    last        \* the call that ended last: operation, arguments, outcome

vars == <<store, saved, stack, height, last>>

-----------------------------------------------------------------------------
(* Program constants                                                       *)

ONE_TOKEN == 100000000
ONE_GAS == 100000000
MIN_QUALITY_SCORE == 50
MAX_QUALITY_SCORE == 100
MIN_LOCK_BLOCKS == 100
MAX_LOCK_BLOCKS == 2102400
DEFAULT_SWAP_FEE_BPS == 30
MAX_SWAP_FEE_BPS == 500
MIN_SWAP_AMOUNT == 1000
BPS_DENOMINATOR == 10000
DEFAULT_REPUTATION == 50
MAX_REPUTATION == 100

GAS_SCRIPT == "GAS"
ENTRY_SCRIPT == "entry"
NO_ADDRESS == ""

-----------------------------------------------------------------------------
(* Bounds of the model                                                     *)

MaxSupply == 400000000      \* mints stop above this total supply
MaxLedgerSupply == 200000000  \* the same, for the ledger and the locks
MaxPauseSupply == 100000000   \* the same, where the pause flag is in play
MaxPauseReserve == 100000000  \* the reserve counter, where the pause flag is in play
MaxMarketReserve == 200000000 \* the same, for the market
MaxReserve == 300000000     \* deposits stop above this reserve counter
MaxMints == 2               \* total_mints of a class stops here
MaxHeight == 100            \* the chain stops here
MaxNested == 1              \* calls made by callees within one transaction

-----------------------------------------------------------------------------
(* The universe the inputs are drawn from                                  *)

Deployer == "dao"
Accounts == {"dao", "alice"}
Contracts == {"bot"}
Addresses == Accounts \cup Contracts
ModelIds == {"gpt4", "llama"}

sha256(model_id) == "#" \o model_id

TokenIds == {sha256(m) : m \in ModelIds}

\* no address is taken for a contract
get_contract_never(a) == FALSE

\* get_contract(to) is not None
get_contract(a) == a \in Contracts

-----------------------------------------------------------------------------
(* Storage: a map holds the keys that were put and not deleted             *)

EmptyMap == [k \in {} |-> 0]

Has(m, k) == k \in DOMAIN m

Put(m, k, v) == [x \in (DOMAIN m) \cup {k} |-> IF x = k THEN v ELSE m[x]]

Delete(m, k) == [x \in (DOMAIN m) \ {k} |-> m[x]]

\* get(...) followed by `if len(value) == 0: return 0`
GetInt(m, k) == IF Has(m, k) THEN m[k] ELSE 0

\* floor(a * b / c) on the VM's unbounded integers, for a, b >= 0 and c > 0,
\* evaluated bit by bit so that no intermediate product is formed
RECURSIVE MulDivPair(_, _, _)
MulDivPair(a, b, c) ==
    IF a = 0 THEN <<0, 0>>
    ELSE LET h == MulDivPair(a \div 2, b, c)
             r2 == 2 * h[2] + (a % 2) * (b % c)
         IN  <<2 * h[1] + (a % 2) * (b \div c) + (r2 \div c), r2 % c>>

MulDivFloor(a, b, c) == MulDivPair(a, b, c)[1]

\* A price or floor p is the integer p[1] * ONE_GAS + p[2], 0 <= p[2] < ONE_GAS,
\* kept in two parts so that prices above the checker's integers exist
Gas(n) == <<n \div ONE_GAS, n % ONE_GAS>>

\* p > 0
GasPositive(p) == p[1] > 0 \/ p[2] > 0

\* a >= b
GasAtLeast(a, b) == a[1] > b[1] \/ (a[1] = b[1] /\ a[2] >= b[2])

\* k * price <= net_gas * 10^8
PriceFits(k, net_gas, price) ==
    LET m == MulDivPair(k, price[2], ONE_TOKEN)
    IN  k * price[1] + m[1] + (IF m[2] > 0 THEN 1 ELSE 0) <= net_gas

\* the largest k in lo..hi with k * price <= net_gas * 10^8, lo being one
RECURSIVE LargestFit(_, _, _, _)
LargestFit(lo, hi, net_gas, price) ==
    IF lo >= hi THEN lo
    ELSE LET mid == (lo + hi + 1) \div 2
         IN  IF PriceFits(mid, net_gas, price)
             THEN LargestFit(mid, hi, net_gas, price)
             ELSE LargestFit(lo, mid - 1, net_gas, price)

\* the tokens of a purchase with dust rounded up to one unit
TokensAtPriceAtLeastOne(net_gas, price) ==
    IF price[1] = 0 /\ MulDivFloor(net_gas, ONE_TOKEN, price[2]) > 0
    THEN MulDivFloor(net_gas, ONE_TOKEN, price[2])
    ELSE IF price[1] > 0 /\ PriceFits(1, net_gas, price)
    THEN LargestFit(1, net_gas \div price[1], net_gas, price)
    ELSE 1

\* (net_gas * ONE_TOKEN) // price, for price > 0
TokensAtPrice(net_gas, price) ==
    IF price[1] = 0 THEN MulDivFloor(net_gas, ONE_TOKEN, price[2])
    ELSE LargestFit(0, net_gas \div price[1], net_gas, price)

\* the gross of a sale taken as one unit of GAS per unit of token
GasAtPriceNominal(compute_amount, price) == compute_amount

\* (compute_amount * price) // ONE_TOKEN
GasAtPrice(compute_amount, price) ==
    compute_amount * price[1] + MulDivFloor(compute_amount, price[2], ONE_TOKEN)

RECURSIVE SumSeq(_)
SumSeq(q) == IF q = <<>> THEN 0 ELSE Head(q) + SumSeq(Tail(q))

RECURSIVE SumOver(_, _)
SumOver(S, f) ==
    IF S = {} THEN 0
    ELSE LET x == CHOOSE y \in S : TRUE IN f[x] + SumOver(S \ {x}, f)

SeqContains(q, x) == \E i \in 1..Len(q) : q[i] = x

\* list.remove(x): drops the first occurrence
SeqRemove(q, x) ==
    LET i == CHOOSE j \in 1..Len(q) : q[j] = x /\ \A k \in 1..(j - 1) : q[k] # x
    IN  SubSeq(q, 1, i - 1) \o SubSeq(q, i + 1, Len(q))

-----------------------------------------------------------------------------
(* _deploy                                                                 *)

_deploy ==
    [ balance        |-> EmptyMap,
      supply         |-> EmptyMap,
      token_data     |-> EmptyMap,
      account_tokens |-> EmptyMap,
      provider       |-> EmptyMap,
      provider_list  |-> <<>>,
      approved       |-> EmptyMap,
      oracle         |-> {Deployer},
      minter         |-> {Deployer},
      lock           |-> EmptyMap,
      total_locked   |-> EmptyMap,
      admin          |-> Deployer,
      paused         |-> FALSE,
      total_supply   |-> 0,
      reentrancy     |-> FALSE,
      governance     |-> NO_ADDRESS,
      price          |-> EmptyMap,
      gas_reserve    |-> 0,
      swap_fee_bps   |-> DEFAULT_SWAP_FEE_BPS,
      price_history  |-> EmptyMap,
      price_oracle   |-> EmptyMap,
      min_price      |-> EmptyMap,
      gas_held       |-> 0 ]

-----------------------------------------------------------------------------
(* Internal functions                                                      *)

_get_balance(s, owner, token_id) == GetInt(s.balance, <<owner, token_id>>)

_get_locked_amount(s, owner, token_id) == GetInt(s.total_locked, <<owner, token_id>>)

_get_account_tokens(s, owner) ==
    IF Has(s.account_tokens, owner) THEN s.account_tokens[owner] ELSE <<>>

\* a class appended to the index whether it is there or not
_add_token_to_account_again(s, owner, token_id) ==
    [s EXCEPT !.account_tokens =
        Put(@, owner, Append(_get_account_tokens(s, owner), token_id))]

_add_token_to_account(s, owner, token_id) ==
    LET tokens == _get_account_tokens(s, owner)
    IN  IF ~SeqContains(tokens, token_id)
        THEN [s EXCEPT !.account_tokens = Put(@, owner, Append(tokens, token_id))]
        ELSE s

\* a class left in the index when its balance is gone
_remove_token_from_account_kept(s, owner, token_id) == s

_remove_token_from_account(s, owner, token_id) ==
    LET tokens == _get_account_tokens(s, owner)
    IN  IF SeqContains(tokens, token_id)
        THEN LET rest == SeqRemove(tokens, token_id)
             IN  IF Len(rest) > 0
                 THEN [s EXCEPT !.account_tokens = Put(@, owner, rest)]
                 ELSE [s EXCEPT !.account_tokens = Delete(@, owner)]
        ELSE s

\* A credit that overwrites the stored balance
_increase_balance_overwrite(s, owner, token_id, amount) ==
    _add_token_to_account([s EXCEPT !.balance = Put(@, <<owner, token_id>>, amount)],
                          owner, token_id)

_increase_balance(s, owner, token_id, amount) ==
    LET current == _get_balance(s, owner, token_id)
        s1 == [s EXCEPT !.balance = Put(@, <<owner, token_id>>, current + amount)]
    IN  _add_token_to_account(s1, owner, token_id)

\* a debit that is not written
_decrease_balance_skipped(s, owner, token_id, amount) == s

_decrease_balance(s, owner, token_id, amount) ==
    LET current == _get_balance(s, owner, token_id)
        new_balance == current - amount
    IN  IF new_balance > 0
        THEN [s EXCEPT !.balance = Put(@, <<owner, token_id>>, new_balance)]
        ELSE _remove_token_from_account(
                 [s EXCEPT !.balance = Delete(@, <<owner, token_id>>)], owner, token_id)

_mint_internal(s, to, token_id, amount, model_id, now) ==
    LET s1 == IF ~Has(s.token_data, token_id)
              THEN [s EXCEPT !.token_data =
                        Put(@, token_id, [model_id |-> model_id, total_mints |-> 1,
                                          created_at |-> now])]
              ELSE [s EXCEPT !.token_data =
                        Put(@, token_id,
                            [s.token_data[token_id] EXCEPT !.total_mints = @ + 1])]
        s2 == _increase_balance(s1, to, token_id, amount)
        s3 == [s2 EXCEPT !.supply = Put(@, token_id, GetInt(s2.supply, token_id) + amount)]
    IN  [s3 EXCEPT !.total_supply = @ + amount]

\* A burn that leaves the total supply as it was
_burn_internal_keeps_total(s, owner, token_id, amount) ==
    LET s1 == _decrease_balance(s, owner, token_id, amount)
    IN  [s1 EXCEPT !.supply = Put(@, token_id, GetInt(s1.supply, token_id) - amount)]

_burn_internal(s, owner, token_id, amount) ==
    LET s1 == _decrease_balance(s, owner, token_id, amount)
        s2 == [s1 EXCEPT !.supply = Put(@, token_id, GetInt(s1.supply, token_id) - amount)]
    IN  [s2 EXCEPT !.total_supply = @ - amount]

_get_gas_reserve(s) == s.gas_reserve

\* the fee read as the default whatever was configured
_get_swap_fee_bps_default(s) == DEFAULT_SWAP_FEE_BPS

\* put(ctx, PREFIX_SWAP_FEE_BPS, 0) stores the integer 0 as the empty byte
\* string, which is read back as "no value": the default
_get_swap_fee_bps(s) == IF s.swap_fee_bps = 0 THEN DEFAULT_SWAP_FEE_BPS ELSE s.swap_fee_bps

_is_paused(s) == s.paused

\* the deployer taken for an admin for good
_is_admin_or_deployer(s, address) == s.admin = address \/ address = Deployer

_is_admin(s, address) == s.admin = address

_is_governance(s, address) == s.governance = address

\* the oracle role taken as held by every address
_is_oracle_anyone(s, address) == TRUE

_is_oracle(s, address) == address \in s.oracle

_set_oracle(s, address, authorized) ==
    IF authorized THEN [s EXCEPT !.oracle = @ \cup {address}]
    ELSE [s EXCEPT !.oracle = @ \ {address}]

_is_minter(s, address) == address \in s.minter

_set_minter(s, address, authorized) ==
    IF authorized THEN [s EXCEPT !.minter = @ \cup {address}]
    ELSE [s EXCEPT !.minter = @ \ {address}]

\* an approval taken to cover any amount
_is_approved_any_amount(s, owner, token_id, spender, amount) ==
    Has(s.approved, <<owner, token_id, spender>>)

_is_approved(s, owner, token_id, spender, amount) ==
    Has(s.approved, <<owner, token_id, spender>>)
        /\ s.approved[<<owner, token_id, spender>>] >= amount

_is_reentrancy_locked(s) == s.reentrancy

\* A reentrancy lock that is never written
_set_reentrancy_lock_noop(s, locked) == s

_set_reentrancy_lock(s, locked) == [s EXCEPT !.reentrancy = locked]

\* check_witness(a): a signed the transaction, or a is the calling contract
check_witness(cx, a) == a = cx.signer \/ a = cx.caller

get_current_price(s, model_id) ==
    IF Has(s.price, sha256(model_id)) THEN s.price[sha256(model_id)] ELSE Gas(0)

-----------------------------------------------------------------------------
(* What an entry point yields: a failed assert, a return, or a return that *)
(* is still owed an external call (GAS.transfer, onNEP11Payment)           *)

NoExt == [kind |-> "none", to |-> NO_ADDRESS, amount |-> 0]

Fail(s, err) == [ok |-> FALSE, err |-> err, st |-> s, ret |-> 0, ext |-> NoExt]

Return(s, ret) == [ok |-> TRUE, err |-> "", st |-> s, ret |-> ret, ext |-> NoExt]

CallOut(s, ret, kind, to, amount) ==
    [ok |-> TRUE, err |-> "", st |-> s, ret |-> ret,
     ext |-> [kind |-> kind, to |-> to, amount |-> amount]]

-----------------------------------------------------------------------------
(* Pricing engine                                                          *)

update_price_oracle(s, cx, model_id, new_price_gas) ==
    IF _is_paused(s) THEN Fail(s, "Contract is paused")
    ELSE IF ~GasPositive(new_price_gas) THEN Fail(s, "Price must be positive")
    ELSE IF ~_is_oracle(s, cx.caller) THEN Fail(s, "Not authorized oracle")
    ELSE LET token_id == sha256(model_id) IN
    IF Has(s.min_price, token_id) /\ ~GasAtLeast(new_price_gas, s.min_price[token_id])
    THEN Fail(s, "Price below minimum floor")
    ELSE LET s1 == [s EXCEPT !.price = Put(@, token_id, new_price_gas),
                             !.price_history = Put(@, <<token_id, cx.now>>, new_price_gas),
                             !.price_oracle = Put(@, token_id, cx.caller)]
             s2 == IF ~Has(s1.token_data, token_id)
                   THEN [s1 EXCEPT !.token_data =
                            Put(@, token_id, [model_id |-> model_id, total_mints |-> 0,
                                              created_at |-> cx.now])]
                   ELSE s1
         IN  Return(s2, 1)

\* set_price_floor storing a floor of 0 instead of deleting the floor
set_price_floor_stores_zero(s, cx, model_id, min_price) ==
    IF ~_is_admin(s, cx.caller) THEN Fail(s, "Not authorized")
    ELSE Return([s EXCEPT !.min_price = Put(@, sha256(model_id), min_price)], 1)

set_price_floor(s, cx, model_id, min_price) ==
    IF ~_is_admin(s, cx.caller) THEN Fail(s, "Not authorized")
    ELSE LET token_id == sha256(model_id) IN
         IF GasPositive(min_price)
         THEN Return([s EXCEPT !.min_price = Put(@, token_id, min_price)], 1)
         ELSE Return([s EXCEPT !.min_price = Delete(@, token_id)], 1)

-----------------------------------------------------------------------------
(* Swap mechanism                                                          *)

\* buy_compute crediting the reserve with the payment net of the fee
buy_settle_net(s, buyer, token_id, compute_amount, model_id, gas_amount, now) ==
    LET s2 == _mint_internal(s, buyer, token_id, compute_amount, model_id, now)
        fee_amount == MulDivFloor(gas_amount, _get_swap_fee_bps(s), BPS_DENOMINATOR)
    IN  [s2 EXCEPT !.gas_reserve = _get_gas_reserve(s2) + gas_amount - fee_amount]

\* buy_compute: mint to the buyer, then credit the reserve
buy_settle(s, buyer, token_id, compute_amount, model_id, gas_amount, now) ==
    LET s2 == _mint_internal(s, buyer, token_id, compute_amount, model_id, now)
        current_reserve == _get_gas_reserve(s2)
    IN  [s2 EXCEPT !.gas_reserve = current_reserve + gas_amount]

buy_compute(s, cx, buyer, model_id, gas_amount) ==
    IF _is_paused(s) THEN Fail(s, "Contract is paused")
    ELSE IF ~(gas_amount >= MIN_SWAP_AMOUNT) THEN Fail(s, "Amount too small")
    ELSE IF _is_reentrancy_locked(s) THEN Fail(s, "Reentrancy detected")
    ELSE LET s1 == _set_reentrancy_lock(s, TRUE)
             token_id == sha256(model_id)
             price == get_current_price(s1, model_id)
         IN
    IF ~GasPositive(price) THEN Fail(s1, "Model not registered or price not set")
    ELSE LET fee_bps == _get_swap_fee_bps(s1)
             fee_amount == MulDivFloor(gas_amount, fee_bps, BPS_DENOMINATOR)
             net_gas == gas_amount - fee_amount
             compute_amount == TokensAtPrice(net_gas, price)
         IN
    IF ~(compute_amount > 0) THEN Fail(s1, "Compute amount too small")
    ELSE LET s3 == buy_settle(s1, buyer, token_id, compute_amount, model_id,
                              gas_amount, cx.now)
         IN  Return(_set_reentrancy_lock(s3, FALSE), compute_amount)

\* sell_compute paying out before the burn and the debit
sell_settle_deferred(s, seller, token_id, compute_amount, current_reserve, net_gas) == s

\* sell_compute burning without debiting the reserve
sell_settle_keeps_reserve(s, seller, token_id, compute_amount, current_reserve, net_gas) ==
    _burn_internal(s, seller, token_id, compute_amount)

\* sell_compute: burn the seller's tokens, then debit the reserve
sell_settle(s, seller, token_id, compute_amount, current_reserve, net_gas) ==
    LET s2 == _burn_internal(s, seller, token_id, compute_amount)
    IN  [s2 EXCEPT !.gas_reserve = current_reserve - net_gas]

\* sell_compute without the assert on the net payout
sell_compute_pays_nothing(s, cx, seller, model_id, compute_amount) ==
    IF _is_paused(s) THEN Fail(s, "Contract is paused")
    ELSE IF ~check_witness(cx, seller) THEN Fail(s, "Not authorized")
    ELSE IF ~(compute_amount >= MIN_SWAP_AMOUNT) THEN Fail(s, "Amount too small")
    ELSE IF _is_reentrancy_locked(s) THEN Fail(s, "Reentrancy detected")
    ELSE LET s1 == _set_reentrancy_lock(s, TRUE)
             token_id == sha256(model_id)
             available == _get_balance(s1, seller, token_id)
                            - _get_locked_amount(s1, seller, token_id)
         IN
    IF ~(available >= compute_amount) THEN Fail(s1, "Insufficient unlocked balance")
    ELSE LET price == get_current_price(s1, model_id) IN
    IF ~GasPositive(price) THEN Fail(s1, "Model not registered or price not set")
    ELSE LET gross_gas == GasAtPrice(compute_amount, price)
             net_gas == gross_gas
                          - MulDivFloor(gross_gas, _get_swap_fee_bps(s1), BPS_DENOMINATOR)
             current_reserve == _get_gas_reserve(s1)
         IN
    IF ~(current_reserve >= net_gas) THEN Fail(s1, "Insufficient GAS reserve")
    ELSE CallOut(sell_settle(s1, seller, token_id, compute_amount, current_reserve,
                             net_gas),
                 net_gas, "GAS.transfer", seller, net_gas)

\* A sale that looks at the reentrancy flag before it looks at the seller
sell_compute_guard_first(s, cx, seller, model_id, compute_amount) ==
    IF _is_paused(s) THEN Fail(s, "Contract is paused")
    ELSE IF _is_reentrancy_locked(s) THEN Fail(s, "Reentrancy detected")
    ELSE IF ~check_witness(cx, seller) THEN Fail(s, "Not authorized")
    ELSE IF ~(compute_amount >= MIN_SWAP_AMOUNT) THEN Fail(s, "Amount too small")
    ELSE LET s1 == _set_reentrancy_lock(s, TRUE)
             token_id == sha256(model_id)
             current_balance == _get_balance(s1, seller, token_id)
             locked_amount == _get_locked_amount(s1, seller, token_id)
             available == current_balance - locked_amount
         IN
    IF ~(available >= compute_amount) THEN Fail(s1, "Insufficient unlocked balance")
    ELSE LET price == get_current_price(s1, model_id) IN
    IF ~GasPositive(price) THEN Fail(s1, "Model not registered or price not set")
    ELSE LET gross_gas == GasAtPrice(compute_amount, price)
             fee_bps == _get_swap_fee_bps(s1)
             fee_amount == MulDivFloor(gross_gas, fee_bps, BPS_DENOMINATOR)
             net_gas == gross_gas - fee_amount
         IN
    IF ~(net_gas > 0) THEN Fail(s1, "Output too small after fee")
    ELSE LET current_reserve == _get_gas_reserve(s1) IN
    IF ~(current_reserve >= net_gas) THEN Fail(s1, "Insufficient GAS reserve")
    ELSE LET s3 == sell_settle(s1, seller, token_id, compute_amount, current_reserve,
                               net_gas)
         IN  CallOut(s3, net_gas, "GAS.transfer", seller, net_gas)

\* sell_compute up to GAS.transfer(executing_script_hash(), seller, net_gas, None)
sell_compute(s, cx, seller, model_id, compute_amount) ==
    IF _is_paused(s) THEN Fail(s, "Contract is paused")
    ELSE IF ~check_witness(cx, seller) THEN Fail(s, "Not authorized")
    ELSE IF ~(compute_amount >= MIN_SWAP_AMOUNT) THEN Fail(s, "Amount too small")
    ELSE IF _is_reentrancy_locked(s) THEN Fail(s, "Reentrancy detected")
    ELSE LET s1 == _set_reentrancy_lock(s, TRUE)
             token_id == sha256(model_id)
             current_balance == _get_balance(s1, seller, token_id)
             locked_amount == _get_locked_amount(s1, seller, token_id)
             available == current_balance - locked_amount
         IN
    IF ~(available >= compute_amount) THEN Fail(s1, "Insufficient unlocked balance")
    ELSE LET price == get_current_price(s1, model_id) IN
    IF ~GasPositive(price) THEN Fail(s1, "Model not registered or price not set")
    ELSE LET gross_gas == GasAtPrice(compute_amount, price)
             fee_bps == _get_swap_fee_bps(s1)
             fee_amount == MulDivFloor(gross_gas, fee_bps, BPS_DENOMINATOR)
             net_gas == gross_gas - fee_amount
         IN
    IF ~(net_gas > 0) THEN Fail(s1, "Output too small after fee")
    ELSE LET current_reserve == _get_gas_reserve(s1) IN
    IF ~(current_reserve >= net_gas) THEN Fail(s1, "Insufficient GAS reserve")
    ELSE LET s3 == sell_settle(s1, seller, token_id, compute_amount, current_reserve,
                               net_gas)
         IN  CallOut(s3, net_gas, "GAS.transfer", seller, net_gas)

\* sell_compute returning with the reentrancy lock still set
sell_compute_resume_keeps(s) == s

\* sell_compute after GAS.transfer returned True
sell_compute_resume(s) == _set_reentrancy_lock(s, FALSE)

get_buy_quote(s, model_id, gas_amount) ==
    IF gas_amount < MIN_SWAP_AMOUNT THEN 0
    ELSE IF ~Has(s.price, sha256(model_id)) THEN 0
    ELSE LET price == s.price[sha256(model_id)]
             fee_bps == _get_swap_fee_bps(s)
             fee_amount == MulDivFloor(gas_amount, fee_bps, BPS_DENOMINATOR)
             net_gas == gas_amount - fee_amount
         IN  TokensAtPrice(net_gas, price)

\* get_sell_quote leaving the fee out
get_sell_quote_gross(s, model_id, compute_amount) ==
    IF compute_amount < MIN_SWAP_AMOUNT THEN 0
    ELSE IF ~Has(s.price, sha256(model_id)) THEN 0
    ELSE GasAtPrice(compute_amount, s.price[sha256(model_id)])

get_sell_quote(s, model_id, compute_amount) ==
    IF compute_amount < MIN_SWAP_AMOUNT THEN 0
    ELSE IF ~Has(s.price, sha256(model_id)) THEN 0
    ELSE LET price == s.price[sha256(model_id)]
             gross_gas == GasAtPrice(compute_amount, price)
             fee_bps == _get_swap_fee_bps(s)
             fee_amount == MulDivFloor(gross_gas, fee_bps, BPS_DENOMINATOR)
         IN  gross_gas - fee_amount

\* A fee setter without the range check
set_swap_fee_unbounded(s, cx, fee_bps) ==
    IF ~_is_admin(s, cx.caller) THEN Fail(s, "Not authorized")
    ELSE Return([s EXCEPT !.swap_fee_bps = fee_bps], 1)

set_swap_fee(s, cx, fee_bps) ==
    IF ~_is_admin(s, cx.caller) THEN Fail(s, "Not authorized")
    ELSE IF ~(fee_bps >= 0 /\ fee_bps <= MAX_SWAP_FEE_BPS) THEN Fail(s, "Invalid fee")
    ELSE Return([s EXCEPT !.swap_fee_bps = fee_bps], 1)

\* data is a model id, or NO_DATA for None
NO_DATA == ""

\* A payment handler that leaves the amount on the counter before it buys
onNEP17Payment_counted_twice(s, cx, from_address, amount, data) ==
    IF ~(cx.caller = GAS_SCRIPT) THEN Fail(s, "Only GAS accepted")
    ELSE LET current_reserve == _get_gas_reserve(s)
             s1 == [s EXCEPT !.gas_reserve = current_reserve + amount]
             bought == buy_compute(s1, cx, from_address, data, amount)
         IN  IF data # NO_DATA
             THEN IF bought.ok THEN [bought EXCEPT !.ret = 0] ELSE bought
             ELSE Return(s1, 0)

onNEP17Payment(s, cx, from_address, amount, data) ==
    IF ~(cx.caller = GAS_SCRIPT) THEN Fail(s, "Only GAS accepted")
    ELSE LET current_reserve == _get_gas_reserve(s)
             s1 == [s EXCEPT !.gas_reserve = current_reserve + amount]
             bought == buy_compute([s1 EXCEPT !.gas_reserve = current_reserve],
                                   cx, from_address, data, amount)
         IN  IF data # NO_DATA
             THEN IF bought.ok THEN [bought EXCEPT !.ret = 0] ELSE bought
             ELSE Return(s1, 0)

-----------------------------------------------------------------------------
(* Transfer operations                                                     *)

\* A transfer that takes what a spender moves off the spender's allowance
transfer_spends_allowance(s, cx, from_address, to, amount, token_id) ==
    IF ~(amount > 0) THEN Fail(s, "Amount must be positive")
    ELSE IF _is_paused(s) THEN Fail(s, "Contract is paused")
    ELSE IF ~(check_witness(cx, from_address)
              \/ _is_approved(s, from_address, token_id, cx.caller, amount))
    THEN Fail(s, "Not authorized")
    ELSE LET current_balance == _get_balance(s, from_address, token_id)
             locked_amount == _get_locked_amount(s, from_address, token_id)
             available_balance == current_balance - locked_amount
             key == <<from_address, token_id, cx.caller>>
         IN
    IF ~(available_balance >= amount) THEN Fail(s, "Insufficient unlocked balance")
    ELSE LET s0 == IF check_witness(cx, from_address) THEN s
                   ELSE IF s.approved[key] > amount
                   THEN [s EXCEPT !.approved = Put(@, key, s.approved[key] - amount)]
                   ELSE [s EXCEPT !.approved = Delete(@, key)]
             s1 == _decrease_balance(s0, from_address, token_id, amount)
             s2 == _increase_balance(s1, to, token_id, amount)
         IN  IF get_contract(to)
             THEN CallOut(s2, 1, "onNEP11Payment", to, amount)
             ELSE Return(s2, 1)

\* transfer up to call_contract(to, 'onNEP11Payment', ...)
transfer(s, cx, from_address, to, amount, token_id) ==
    IF ~(amount > 0) THEN Fail(s, "Amount must be positive")
    ELSE IF _is_paused(s) THEN Fail(s, "Contract is paused")
    ELSE IF ~(check_witness(cx, from_address)
              \/ _is_approved(s, from_address, token_id, cx.caller, amount))
    THEN Fail(s, "Not authorized")
    ELSE LET current_balance == _get_balance(s, from_address, token_id)
             locked_amount == _get_locked_amount(s, from_address, token_id)
             available_balance == current_balance - locked_amount
         IN
    IF ~(available_balance >= amount) THEN Fail(s, "Insufficient unlocked balance")
    ELSE LET s1 == _decrease_balance(s, from_address, token_id, amount)
             s2 == _increase_balance(s1, to, token_id, amount)
         IN  IF get_contract(to)
             THEN CallOut(s2, 1, "onNEP11Payment", to, amount)
             ELSE Return(s2, 1)

approve(s, cx, owner, spender, amount, token_id) ==
    IF ~check_witness(cx, owner) THEN Fail(s, "Not authorized")
    ELSE LET key == <<owner, token_id, spender>> IN
         IF amount > 0
         THEN Return([s EXCEPT !.approved = Put(@, key, amount)], 1)
         ELSE Return([s EXCEPT !.approved = Delete(@, key)], 1)

allowance(s, owner, spender, token_id) == GetInt(s.approved, <<owner, token_id, spender>>)

-----------------------------------------------------------------------------
(* Provider registry                                                       *)

_add_to_provider_list(s, provider) ==
    IF SeqContains(s.provider_list, provider) THEN s
    ELSE [s EXCEPT !.provider_list = Append(@, provider)]

\* A registration that leaves the profile of a registered provider alone
register_provider_once(s, cx, name) ==
    IF _is_paused(s) THEN Fail(s, "Contract is paused")
    ELSE LET provider == cx.caller IN
    IF ~check_witness(cx, provider) THEN Fail(s, "Not authorized")
    ELSE IF Has(s.provider, provider) THEN Return(s, 1)
    ELSE LET provider_data == [name |-> name,
                               reputation_score |-> DEFAULT_REPUTATION,
                               total_earned |-> 0,
                               registered_at |-> cx.now,
                               active |-> TRUE]
             s1 == [s EXCEPT !.provider = Put(@, provider, provider_data)]
         IN  Return(_add_to_provider_list(s1, provider), 1)

register_provider(s, cx, name) ==
    IF _is_paused(s) THEN Fail(s, "Contract is paused")
    ELSE LET provider == cx.caller IN
    IF ~check_witness(cx, provider) THEN Fail(s, "Not authorized")
    ELSE LET provider_data == [name |-> name,
                               reputation_score |-> DEFAULT_REPUTATION,
                               total_earned |-> 0,
                               registered_at |-> cx.now,
                               active |-> TRUE]
             s1 == [s EXCEPT !.provider = Put(@, provider, provider_data)]
         IN  Return(_add_to_provider_list(s1, provider), 1)

\* Rewards minted on anybody's call
mint_rewards_by_anyone(s, cx, provider, model_id, amount) ==
    IF _is_paused(s) THEN Fail(s, "Contract is paused")
    ELSE IF ~(amount > 0) THEN Fail(s, "Amount must be positive")
    ELSE IF ~Has(s.provider, provider) THEN Fail(s, "Provider not registered")
    ELSE LET provider_data == s.provider[provider]
             token_id == sha256(model_id)
             s1 == _mint_internal(s, provider, token_id, amount, model_id, cx.now)
         IN  Return([s1 EXCEPT !.provider =
                        Put(@, provider,
                            [provider_data EXCEPT !.total_earned = @ + amount])], 1)

mint_rewards(s, cx, provider, model_id, amount) ==
    IF _is_paused(s) THEN Fail(s, "Contract is paused")
    ELSE IF ~(amount > 0) THEN Fail(s, "Amount must be positive")
    ELSE IF ~_is_minter(s, cx.caller) THEN Fail(s, "Not authorized to mint rewards")
    ELSE IF ~Has(s.provider, provider) THEN Fail(s, "Provider not registered")
    ELSE LET provider_data == s.provider[provider]
             token_id == sha256(model_id)
             s1 == _mint_internal(s, provider, token_id, amount, model_id, cx.now)
         IN  Return([s1 EXCEPT !.provider =
                        Put(@, provider,
                            [provider_data EXCEPT !.total_earned = @ + amount])], 1)

\* A reputation update that stores whatever score it is given
update_provider_reputation_unchecked(s, cx, provider, new_score) ==
    IF _is_paused(s) THEN Fail(s, "Contract is paused")
    ELSE IF ~(_is_oracle(s, cx.caller) \/ _is_governance(s, cx.caller))
    THEN Fail(s, "Not authorized")
    ELSE IF ~Has(s.provider, provider) THEN Fail(s, "Provider not registered")
    ELSE Return([s EXCEPT !.provider =
                    Put(@, provider,
                        [s.provider[provider] EXCEPT !.reputation_score = new_score])], 1)

update_provider_reputation(s, cx, provider, new_score) ==
    IF _is_paused(s) THEN Fail(s, "Contract is paused")
    ELSE IF ~(new_score >= 0 /\ new_score <= MAX_REPUTATION)
    THEN Fail(s, "Score must be 0-100")
    ELSE IF ~(_is_oracle(s, cx.caller) \/ _is_governance(s, cx.caller))
    THEN Fail(s, "Not authorized")
    ELSE IF ~Has(s.provider, provider) THEN Fail(s, "Provider not registered")
    ELSE Return([s EXCEPT !.provider =
                    Put(@, provider,
                        [s.provider[provider] EXCEPT !.reputation_score = new_score])], 1)

-----------------------------------------------------------------------------
(* Minting and burning                                                     *)

mint(s, cx, to, model_id, amount, quality_score) ==
    IF _is_paused(s) THEN Fail(s, "Contract is paused")
    ELSE IF ~(amount > 0) THEN Fail(s, "Amount must be positive")
    ELSE IF ~(quality_score >= MIN_QUALITY_SCORE /\ quality_score <= MAX_QUALITY_SCORE)
    THEN Fail(s, "Invalid quality score")
    ELSE IF ~_is_minter(s, cx.caller) THEN Fail(s, "Not authorized to mint")
    ELSE LET token_id == sha256(model_id)
             actual_amount == MulDivFloor(amount, quality_score, 100)
         IN
    IF ~(actual_amount > 0) THEN Fail(s, "Mint amount too small")
    ELSE Return(_mint_internal(s, to, token_id, actual_amount, model_id, cx.now), 1)

\* A burn that asks for no witness of the owner
burn_by_anyone(s, cx, owner, token_id, amount) ==
    IF _is_paused(s) THEN Fail(s, "Contract is paused")
    ELSE IF ~(amount > 0) THEN Fail(s, "Amount must be positive")
    ELSE LET current_balance == _get_balance(s, owner, token_id)
             locked == _get_locked_amount(s, owner, token_id)
             available == current_balance - locked
         IN
    IF ~(available >= amount) THEN Fail(s, "Insufficient unlocked balance")
    ELSE Return(_burn_internal(s, owner, token_id, amount), 1)

burn(s, cx, owner, token_id, amount) ==
    IF _is_paused(s) THEN Fail(s, "Contract is paused")
    ELSE IF ~check_witness(cx, owner) THEN Fail(s, "Not authorized")
    ELSE IF ~(amount > 0) THEN Fail(s, "Amount must be positive")
    ELSE LET current_balance == _get_balance(s, owner, token_id)
             locked == _get_locked_amount(s, owner, token_id)
             available == current_balance - locked
         IN
    IF ~(available >= amount) THEN Fail(s, "Insufficient unlocked balance")
    ELSE Return(_burn_internal(s, owner, token_id, amount), 1)

-----------------------------------------------------------------------------
(* Microfinance: lock and unlock                                           *)

\* A lock checked against the whole balance, locked part included
lock_against_balance(s, cx, owner, token_id, amount, duration_blocks) ==
    IF _is_paused(s) THEN Fail(s, "Contract is paused")
    ELSE IF ~check_witness(cx, owner) THEN Fail(s, "Not authorized")
    ELSE IF ~(amount > 0) THEN Fail(s, "Amount must be positive")
    ELSE IF ~(duration_blocks >= MIN_LOCK_BLOCKS /\ duration_blocks <= MAX_LOCK_BLOCKS)
    THEN Fail(s, "Invalid duration")
    ELSE IF ~(_get_balance(s, owner, token_id) >= amount)
    THEN Fail(s, "Insufficient unlocked balance")
    ELSE LET lock_key == <<owner, token_id>>
             locked == _get_locked_amount(s, owner, token_id) + amount
         IN  Return([s EXCEPT !.lock = Put(@, lock_key,
                                  [amount |-> locked, unlock_block |-> cx.now + duration_blocks,
                                   created_at |-> cx.now]),
                              !.total_locked = Put(@, lock_key, locked)], 1)

\* A lock with no upper limit on its duration
lock_without_maximum(s, cx, owner, token_id, amount, duration_blocks) ==
    IF _is_paused(s) THEN Fail(s, "Contract is paused")
    ELSE IF ~check_witness(cx, owner) THEN Fail(s, "Not authorized")
    ELSE IF ~(amount > 0) THEN Fail(s, "Amount must be positive")
    ELSE IF ~(duration_blocks >= MIN_LOCK_BLOCKS) THEN Fail(s, "Invalid duration")
    ELSE IF ~(_get_balance(s, owner, token_id) - _get_locked_amount(s, owner, token_id)
                >= amount)
    THEN Fail(s, "Insufficient unlocked balance")
    ELSE LET unlock_block == cx.now + duration_blocks
             lock_key == <<owner, token_id>>
             lock_data ==
                 IF ~Has(s.lock, lock_key)
                 THEN [amount |-> amount, unlock_block |-> unlock_block,
                       created_at |-> cx.now]
                 ELSE LET existing == s.lock[lock_key] IN
                      [existing EXCEPT
                          !.amount = @ + amount,
                          !.unlock_block = IF unlock_block > @ THEN unlock_block ELSE @]
         IN  Return([s EXCEPT !.lock = Put(@, lock_key, lock_data),
                              !.total_locked = Put(@, lock_key, lock_data.amount)], 1)

\* A lock whose new expiry replaces the expiry of the lock that exists
lock_resets_expiry(s, cx, owner, token_id, amount, duration_blocks) ==
    IF _is_paused(s) THEN Fail(s, "Contract is paused")
    ELSE IF ~check_witness(cx, owner) THEN Fail(s, "Not authorized")
    ELSE IF ~(amount > 0) THEN Fail(s, "Amount must be positive")
    ELSE IF ~(duration_blocks >= MIN_LOCK_BLOCKS /\ duration_blocks <= MAX_LOCK_BLOCKS)
    THEN Fail(s, "Invalid duration")
    ELSE IF ~(_get_balance(s, owner, token_id) - _get_locked_amount(s, owner, token_id)
                >= amount)
    THEN Fail(s, "Insufficient unlocked balance")
    ELSE LET lock_key == <<owner, token_id>>
             locked == _get_locked_amount(s, owner, token_id) + amount
         IN  Return([s EXCEPT !.lock = Put(@, lock_key,
                                  [amount |-> locked, unlock_block |-> cx.now + duration_blocks,
                                   created_at |-> cx.now]),
                              !.total_locked = Put(@, lock_key, locked)], 1)

\* A lock that adds the duration to the expiry of the lock it finds
lock_adds_duration(s, cx, owner, token_id, amount, duration_blocks) ==
    IF _is_paused(s) THEN Fail(s, "Contract is paused")
    ELSE IF ~check_witness(cx, owner) THEN Fail(s, "Not authorized")
    ELSE IF ~(amount > 0) THEN Fail(s, "Amount must be positive")
    ELSE IF ~(duration_blocks >= MIN_LOCK_BLOCKS /\ duration_blocks <= MAX_LOCK_BLOCKS)
    THEN Fail(s, "Invalid duration")
    ELSE IF ~(_get_balance(s, owner, token_id) - _get_locked_amount(s, owner, token_id)
                >= amount)
    THEN Fail(s, "Insufficient unlocked balance")
    ELSE LET lock_key == <<owner, token_id>>
             lock_data ==
                 IF ~Has(s.lock, lock_key)
                 THEN [amount |-> amount, unlock_block |-> cx.now + duration_blocks,
                       created_at |-> cx.now]
                 ELSE [s.lock[lock_key] EXCEPT
                          !.amount = @ + amount,
                          !.unlock_block = @ + duration_blocks]
         IN  Return([s EXCEPT !.lock = Put(@, lock_key, lock_data),
                              !.total_locked = Put(@, lock_key, lock_data.amount)], 1)

lock(s, cx, owner, token_id, amount, duration_blocks) ==
    IF _is_paused(s) THEN Fail(s, "Contract is paused")
    ELSE IF ~check_witness(cx, owner) THEN Fail(s, "Not authorized")
    ELSE IF ~(amount > 0) THEN Fail(s, "Amount must be positive")
    ELSE IF ~(duration_blocks >= MIN_LOCK_BLOCKS /\ duration_blocks <= MAX_LOCK_BLOCKS)
    THEN Fail(s, "Invalid duration")
    ELSE LET current_balance == _get_balance(s, owner, token_id)
             current_locked == _get_locked_amount(s, owner, token_id)
             available == current_balance - current_locked
         IN
    IF ~(available >= amount) THEN Fail(s, "Insufficient unlocked balance")
    ELSE LET unlock_block == cx.now + duration_blocks
             lock_key == <<owner, token_id>>
             lock_data ==
                 IF ~Has(s.lock, lock_key)
                 THEN [amount |-> amount, unlock_block |-> unlock_block,
                       created_at |-> cx.now]
                 ELSE LET existing == s.lock[lock_key] IN
                      [existing EXCEPT
                          !.amount = @ + amount,
                          !.unlock_block = IF unlock_block > @ THEN unlock_block ELSE @]
         IN  Return([s EXCEPT !.lock = Put(@, lock_key, lock_data),
                              !.total_locked = Put(@, lock_key, lock_data.amount)], 1)

\* An unlock without the pause check
unlock_while_paused(s, cx, owner, token_id) ==
    IF ~check_witness(cx, owner) THEN Fail(s, "Not authorized")
    ELSE LET lock_key == <<owner, token_id>> IN
    IF ~Has(s.lock, lock_key) THEN Fail(s, "No lock found")
    ELSE IF ~(cx.now >= s.lock[lock_key].unlock_block) THEN Fail(s, "Lock not expired")
    ELSE Return([s EXCEPT !.lock = Delete(@, lock_key),
                          !.total_locked = Delete(@, lock_key)], 1)

\* An unlock that waits one block longer than the lock asks for
unlock_after_expiry_only(s, cx, owner, token_id) ==
    IF _is_paused(s) THEN Fail(s, "Contract is paused")
    ELSE IF ~check_witness(cx, owner) THEN Fail(s, "Not authorized")
    ELSE LET lock_key == <<owner, token_id>> IN
    IF ~Has(s.lock, lock_key) THEN Fail(s, "No lock found")
    ELSE IF ~(cx.now > s.lock[lock_key].unlock_block) THEN Fail(s, "Lock not expired")
    ELSE Return([s EXCEPT !.lock = Delete(@, lock_key),
                          !.total_locked = Delete(@, lock_key)], 1)

\* An unlock that deletes the lock record and leaves the locked total
unlock_keeps_total(s, cx, owner, token_id) ==
    IF _is_paused(s) THEN Fail(s, "Contract is paused")
    ELSE IF ~check_witness(cx, owner) THEN Fail(s, "Not authorized")
    ELSE LET lock_key == <<owner, token_id>> IN
    IF ~Has(s.lock, lock_key) THEN Fail(s, "No lock found")
    ELSE IF ~(cx.now >= s.lock[lock_key].unlock_block) THEN Fail(s, "Lock not expired")
    ELSE Return([s EXCEPT !.lock = Delete(@, lock_key)], 1)

unlock(s, cx, owner, token_id) ==
    IF _is_paused(s) THEN Fail(s, "Contract is paused")
    ELSE IF ~check_witness(cx, owner) THEN Fail(s, "Not authorized")
    ELSE LET lock_key == <<owner, token_id>> IN
    IF ~Has(s.lock, lock_key) THEN Fail(s, "No lock found")
    ELSE IF ~(cx.now >= s.lock[lock_key].unlock_block) THEN Fail(s, "Lock not expired")
    ELSE Return([s EXCEPT !.lock = Delete(@, lock_key),
                          !.total_locked = Delete(@, lock_key)], 1)

lockedBalanceOf(s, owner, token_id) == _get_locked_amount(s, owner, token_id)

availableBalanceOf(s, owner, token_id) ==
    _get_balance(s, owner, token_id) - _get_locked_amount(s, owner, token_id)

-----------------------------------------------------------------------------
(* Admin and governance                                                    *)

pause(s, cx) ==
    IF ~_is_admin(s, cx.caller) THEN Fail(s, "Not authorized")
    ELSE Return([s EXCEPT !.paused = TRUE], 1)

resume(s, cx) ==
    IF ~_is_admin(s, cx.caller) THEN Fail(s, "Not authorized")
    ELSE Return([s EXCEPT !.paused = FALSE], 1)

update_admin(s, cx, new_admin) ==
    IF ~_is_admin(s, cx.caller) THEN Fail(s, "Not authorized")
    ELSE Return([s EXCEPT !.admin = new_admin], 1)

set_governance(s, cx, governance_hash) ==
    IF ~_is_admin(s, cx.caller) THEN Fail(s, "Not authorized")
    ELSE Return([s EXCEPT !.governance = governance_hash], 1)

set_oracle(s, cx, oracle, authorized) ==
    IF ~_is_admin(s, cx.caller) THEN Fail(s, "Not authorized")
    ELSE Return(_set_oracle(s, oracle, authorized), 1)

set_minter(s, cx, minter, authorized) ==
    IF ~_is_admin(s, cx.caller) THEN Fail(s, "Not authorized")
    ELSE Return(_set_minter(s, minter, authorized), 1)

\* withdraw_gas up to GAS.transfer(executing_script_hash(), to, amount, None)
withdraw_gas(s, cx, to, amount) ==
    IF ~_is_admin(s, cx.caller) THEN Fail(s, "Not authorized")
    ELSE IF ~(amount > 0) THEN Fail(s, "Amount must be positive")
    ELSE LET current_reserve == _get_gas_reserve(s) IN
    IF ~(current_reserve >= amount) THEN Fail(s, "Insufficient reserve")
    ELSE CallOut([s EXCEPT !.gas_reserve = current_reserve - amount], 1,
                 "GAS.transfer", to, amount)

-----------------------------------------------------------------------------
(* Transactions                                                            *)

NoCall == [op |-> "deploy", args |-> <<>>, caller |-> NO_ADDRESS, signer |-> NO_ADDRESS,
           status |-> "ok", err |-> "", ret |-> 0]

Init ==
    /\ store = _deploy
    /\ saved = _deploy
    /\ stack = <<>>
    /\ height = 0
    /\ last = NoCall

Idle == stack = <<>>

Top == stack[Len(stack)]

\* Who calls, with whose signature: any script between transactions, the
\* running callee (under the transaction's signature) inside one
Contexts(callers, signers) ==
    IF Idle
    THEN {[caller |-> c, signer |-> g, now |-> height] : c \in callers, g \in signers}
    ELSE {[caller |-> Top.to, signer |-> Top.signer, now |-> height]}

WithinBounds(u, s) ==
    /\ s.total_supply <= u.max_supply
    /\ s.gas_reserve <= u.max_reserve
    /\ s.gas_held <= u.max_reserve
    /\ \A t \in DOMAIN s.token_data : s.token_data[t].total_mints <= u.max_mints

\* A transaction that fails as a whole leaves no trace on the chain: it is a
\* step only where u.failures asks for it to be recorded in `last`
Recorded(u) == u.failures = "all" \/ (u.failures = "paused" /\ store.paused)

\* Abort with the writes of the transaction left in the storage
AbortKeepsWrites(op, err) ==
    /\ store' = store
    /\ saved' = store
    /\ stack' = <<>>
    /\ last' = [op |-> op, args |-> <<>>, caller |-> NO_ADDRESS, signer |-> NO_ADDRESS,
                status |-> "fail", err |-> err, ret |-> 0]
    /\ UNCHANGED height

\* A failed assert: the VM faults and the transaction's writes are discarded
Abort(op, err) ==
    /\ store' = saved
    /\ saved' = saved
    /\ stack' = <<>>
    /\ last' = [op |-> op, args |-> <<>>, caller |-> NO_ADDRESS, signer |-> NO_ADDRESS,
                status |-> "fail", err |-> err, ret |-> 0]
    /\ UNCHANGED height

\* What the suspended entry point does once its external call has returned
Resume(op, s) == IF op = "sell_compute" THEN sell_compute_resume(s) ELSE s

\* The entry point returned: a transaction of its own commits, a call of
\* the running callee goes back to that callee
Finish(op, args, cx, s, ret) ==
    /\ store' = s
    /\ saved' = IF Idle THEN s ELSE saved
    /\ stack' = IF Idle THEN stack ELSE [stack EXCEPT ![Len(stack)].calls = @ + 1]
    /\ last' = [op |-> op, args |-> args, caller |-> cx.caller, signer |-> cx.signer,
                status |-> "ok", err |-> "", ret |-> ret]
    /\ UNCHANGED height

\* The entry point hands control to contract `to`
Suspend(op, args, cx, s, ret, to) ==
    /\ store' = s
    /\ saved' = saved
    /\ stack' = Append(stack, [op |-> op, args |-> args, caller |-> cx.caller,
                               signer |-> cx.signer, to |-> to, ret |-> ret,
                               calls |-> IF Idle THEN 0 ELSE Top.calls + 1])
    /\ last' = [op |-> op, args |-> args, caller |-> cx.caller, signer |-> cx.signer,
                status |-> "calling", err |-> "", ret |-> ret]
    /\ UNCHANGED height

\* GAS.transfer(executing_script_hash(), to, amount, None): False when the
\* contract does not hold the amount; onNEP17Payment of `to` when it is a contract
GasTransfer(u, op, args, cx, s, ret, to, amount) ==
    IF s.gas_held < amount THEN (~Idle \/ Recorded(u)) /\ Abort(op, "GAS transfer failed")
    ELSE LET s1 == [s EXCEPT !.gas_held = @ - amount] IN
         IF get_contract(to) THEN Suspend(op, args, cx, s1, ret, to)
         ELSE Finish(op, args, cx, Resume(op, s1), ret)

\* One call of entry point `op` with outcome r.  A transaction that fails
\* as a whole leaves no trace on the chain: it is a step only where
\* u.failures asks for it to be recorded in `last`
Invoke(u, op, args0, cx, r) ==
    LET args == IF u.trace_args THEN args0 ELSE <<>> IN
    /\ (IF Idle THEN TRUE ELSE Top.calls < MaxNested)
    /\ IF ~r.ok THEN (~Idle \/ Recorded(u)) /\ Abort(op, r.err)
       ELSE
         /\ WithinBounds(u, r.st)
         /\ IF r.ext.kind = "GAS.transfer"
            THEN GasTransfer(u, op, args, cx, r.st, r.ret, r.ext.to, r.ext.amount)
            ELSE IF r.ext.kind = "onNEP11Payment"
            THEN Suspend(op, args, cx, r.st, r.ret, r.ext.to)
            ELSE Finish(op, args, cx, r.st, r.ret)

\* The running callee returns
CalleeReturns ==
    /\ ~Idle
    /\ LET f == Top
           s == Resume(f.op, store)
       IN  /\ store' = s
           /\ stack' = IF Len(stack) = 1 THEN <<>>
                       ELSE [SubSeq(stack, 1, Len(stack) - 1)
                                EXCEPT ![Len(stack) - 1].calls = f.calls]
           /\ saved' = IF Len(stack) = 1 THEN s ELSE saved
           /\ last' = [op |-> f.op, args |-> f.args, caller |-> f.caller,
                       signer |-> f.signer, status |-> "ok", err |-> "", ret |-> f.ret]
    /\ UNCHANGED height

\* The running callee faults
CalleeFaults ==
    /\ ~Idle
    /\ Abort(Top.op, "callee fault")

\* Blocks are added between transactions: current_index() grows
AdvanceBlock(u) ==
    /\ Idle
    /\ \E d \in u.block_steps :
        /\ height + d <= MaxHeight
        /\ height' = height + d
    /\ last' = [NoCall EXCEPT !.op = "block"]
    /\ UNCHANGED <<store, saved, stack>>

-----------------------------------------------------------------------------
(* One action per entry point; u names the sets its inputs are drawn from  *)

\* The swap's output stays within MaxSupply (and the integers of the checker)
Affordable(model_id, gas_amount) ==
    LET price == get_current_price(store, model_id)
    IN  (GasPositive(price) /\ price[1] = 0)
            => gas_amount <= (MaxSupply \div ONE_TOKEN + 1) * price[2]

UpdatePriceOracle(u) ==
    \E cx \in Contexts(u.callers, u.signers), m \in u.swap_models, p \in u.prices :
        Invoke(u, "update_price_oracle", <<m, p>>, cx, update_price_oracle(store, cx, m, p))

SetPriceFloor(u) ==
    \E cx \in Contexts(u.callers, u.signers), m \in u.swap_models, p \in u.floors :
        Invoke(u, "set_price_floor", <<m, p>>, cx, set_price_floor(store, cx, m, p))

BuyCompute(u) ==
    \E cx \in Contexts(u.callers, u.signers), buyer \in u.holders, m \in u.swap_models,
       g \in u.gas_amounts :
        /\ Affordable(m, g)
        /\ Invoke(u, "buy_compute", <<buyer, m, g>>, cx, buy_compute(store, cx, buyer, m, g))

\* The sale's gross output stays within the integers of the checker: a sale
\* left out is worth more than twice MaxReserve, which the reserve never holds
Payable(model_id, compute_amount) ==
    LET price == get_current_price(store, model_id)
    IN  price[1] > 0 => compute_amount <= (2 * MaxReserve) \div price[1]

SellCompute(u) ==
    \E cx \in Contexts(u.callers, u.signers), seller \in u.holders, m \in u.swap_models :
        \E a \in u.amounts \cup (IF u.sell_all THEN {_get_balance(store, seller, sha256(m))}
                                 ELSE {}) :
          /\ Payable(m, a)
          /\ Invoke(u, "sell_compute", <<seller, m, a>>, cx,
                   sell_compute(store, cx, seller, m, a))

SetSwapFee(u) ==
    \E cx \in Contexts(u.callers, u.signers), f \in u.fees :
        Invoke(u, "set_swap_fee", <<f>>, cx, set_swap_fee(store, cx, f))

\* GAS.transfer(from, this contract, amount, data) credits the contract and
\* calls onNEP17Payment as GAS_SCRIPT; any other caller calls it directly
OnNEP17Payment(u) ==
    \E cx0 \in Contexts(u.callers, u.signers), via \in u.assets,
       from \in (IF Idle THEN u.holders ELSE {Top.to}), data \in u.data :
        \E g \in (IF data = NO_DATA THEN u.deposits ELSE u.gas_amounts) :
            LET cx == [cx0 EXCEPT !.caller = via]
                s0 == IF via = GAS_SCRIPT THEN [store EXCEPT !.gas_held = @ + g]
                      ELSE store
            IN  /\ data # NO_DATA => Affordable(data, g)
                /\ Invoke(u, "onNEP17Payment", <<from, g, data>>, cx,
                          onNEP17Payment(s0, cx, from, g, data))

Transfer(u) ==
    \E cx \in Contexts(u.callers, u.signers), from \in u.holders, to \in u.holders,
       a \in u.amounts, t \in u.tokens :
        Invoke(u, "transfer", <<from, to, a, t>>, cx, transfer(store, cx, from, to, a, t))

Approve(u) ==
    \E cx \in Contexts(u.callers, u.signers), owner \in u.holders, spender \in u.callers,
       a \in u.allowances, t \in u.tokens :
        Invoke(u, "approve", <<owner, spender, a, t>>, cx,
               approve(store, cx, owner, spender, a, t))

RegisterProvider(u) ==
    \E cx \in Contexts(u.providers, u.signers), n \in u.names :
        /\ cx.caller \in u.providers
        /\ Invoke(u, "register_provider", <<n>>, cx, register_provider(store, cx, n))

MintRewards(u) ==
    \E cx \in Contexts(u.callers, u.signers), p \in u.providers, m \in u.models,
       a \in u.amounts :
        Invoke(u, "mint_rewards", <<p, m, a>>, cx, mint_rewards(store, cx, p, m, a))

UpdateProviderReputation(u) ==
    \E cx \in Contexts(u.callers, u.signers), p \in u.providers, sc \in u.scores :
        Invoke(u, "update_provider_reputation", <<p, sc>>, cx,
               update_provider_reputation(store, cx, p, sc))

Mint(u) ==
    \E cx \in Contexts(u.callers, u.signers), to \in u.holders, m \in u.models,
       a \in u.amounts, q \in u.qualities :
        Invoke(u, "mint", <<to, m, a, q>>, cx, mint(store, cx, to, m, a, q))

Burn(u) ==
    \E cx \in Contexts(u.callers, u.signers), owner \in u.holders, t \in u.tokens,
       a \in u.amounts :
        Invoke(u, "burn", <<owner, t, a>>, cx, burn(store, cx, owner, t, a))

Lock(u) ==
    \E cx \in Contexts(u.callers, u.signers), owner \in u.holders, t \in u.tokens,
       a \in u.amounts, d \in u.durations :
        Invoke(u, "lock", <<owner, t, a, d>>, cx, lock(store, cx, owner, t, a, d))

Unlock(u) ==
    \E cx \in Contexts(u.callers, u.signers), owner \in u.holders, t \in u.tokens :
        Invoke(u, "unlock", <<owner, t>>, cx, unlock(store, cx, owner, t))

Pause(u) ==
    \E cx \in Contexts(u.callers, u.signers) : Invoke(u, "pause", <<>>, cx, pause(store, cx))

Resume_(u) ==
    \E cx \in Contexts(u.callers, u.signers) : Invoke(u, "resume", <<>>, cx, resume(store, cx))

UpdateAdmin(u) ==
    \E cx \in Contexts(u.callers, u.signers), a \in u.callers :
        Invoke(u, "update_admin", <<a>>, cx, update_admin(store, cx, a))

SetGovernance(u) ==
    \E cx \in Contexts(u.callers, u.signers), a \in u.callers :
        Invoke(u, "set_governance", <<a>>, cx, set_governance(store, cx, a))

SetOracle(u) ==
    \E cx \in Contexts(u.callers, u.signers), a \in u.callers, b \in BOOLEAN :
        Invoke(u, "set_oracle", <<a, b>>, cx, set_oracle(store, cx, a, b))

SetMinter(u) ==
    \E cx \in Contexts(u.callers, u.signers), a \in u.callers, b \in BOOLEAN :
        Invoke(u, "set_minter", <<a, b>>, cx, set_minter(store, cx, a, b))

WithdrawGas(u) ==
    \E cx \in Contexts(u.callers, u.signers), to \in u.holders, a \in u.deposits :
        Invoke(u, "withdraw_gas", <<to, a>>, cx, withdraw_gas(store, cx, to, a))

-----------------------------------------------------------------------------
(* The ledger and the swap engine                                          *)

USwap ==
    [ failures    |-> "all",
      trace_args  |-> TRUE,
      callers     |-> {"dao", "alice", "bot"},
      signers     |-> {"alice", "dao"},
      holders     |-> {"alice", "bot"},
      providers   |-> {"alice"},
      models      |-> {"gpt4"},
      swap_models |-> {"gpt4"},
      max_supply  |-> MaxSupply,
      max_reserve |-> MaxReserve,
      tokens      |-> {sha256("gpt4")},
      prices      |-> {Gas(50000000)},
      floors      |-> {Gas(0)},
      gas_amounts |-> {ONE_GAS},
      deposits    |-> {ONE_GAS},
      amounts     |-> {199400000, 2 * ONE_TOKEN},
      allowances  |-> {0, MIN_SWAP_AMOUNT},
      fees        |-> {DEFAULT_SWAP_FEE_BPS},
      assets      |-> {GAS_SCRIPT, "bot"},
      data        |-> {NO_DATA, "gpt4"},
      names       |-> {"home"},
      scores      |-> {DEFAULT_REPUTATION},
      qualities   |-> {MAX_QUALITY_SCORE},
      durations   |-> {MIN_LOCK_BLOCKS},
      block_steps |-> {MIN_LOCK_BLOCKS},
      sell_all    |-> FALSE,
      max_mints   |-> MaxMints ]

Next ==
    \/ UpdatePriceOracle(USwap)
    \/ BuyCompute(USwap)
    \/ SellCompute(USwap)
    \/ OnNEP17Payment(USwap)
    \/ WithdrawGas(USwap)
    \/ CalleeReturns
    \/ CalleeFaults

Spec == Init /\ [][Next]_vars

-----------------------------------------------------------------------------
(* Properties of the swap engine, checked under Spec                       *)

balanceOfToken(s, owner, token_id) == _get_balance(s, owner, token_id)

\* balanceOf: the loop over the owner's held-classes index
RECURSIVE SumHeld(_, _, _)
SumHeld(s, owner, token_ids) ==
    IF token_ids = <<>> THEN 0
    ELSE _get_balance(s, owner, Head(token_ids)) + SumHeld(s, owner, Tail(token_ids))

balanceOf(s, owner) == SumHeld(s, owner, _get_account_tokens(s, owner))

tokenSupply(s, token_id) == GetInt(s.supply, token_id)

\* Sum of the stored balances of one class over all owners
BalanceSum(s, token_id) ==
    SumOver({k \in DOMAIN s.balance : k[2] = token_id}, s.balance)

\* Sum of the stored class supplies
SupplySum(s) == SumOver(DOMAIN s.supply, s.supply)

totalSupply(s) == s.total_supply

SwapInFlight == \E i \in 1..Len(stack) : stack[i].op = "sell_compute"

SwapFrames == {i \in 1..Len(stack) : stack[i].op = "sell_compute"}

ReentrancyFlagClearWhenIdle == Idle => ~_is_reentrancy_locked(store)

\* a sell that was suspended in its payout has returned
SuspendedSellReturned ==
    /\ Idle /\ last.op = "sell_compute" /\ last.status = "ok"
    /\ get_contract(last.args[1])

\* C7: while a swap is in flight, every buy_compute, sell_compute and
\* onNEP17Payment-with-model-id the running callee could make fails, with
\* "Reentrancy detected" once the checks the code makes before the guard
\* (pause, witness, minimum amount) pass; and no nested swap has completed
NestedSwapNeverCompletes ==
    SwapInFlight =>
        /\ Cardinality(SwapFrames) = 1
        /\ ~(last.status = "ok" /\ last.op \in {"buy_compute", "sell_compute"})
        /\ ~(last.status = "ok" /\ last.op = "onNEP17Payment" /\ last.args[3] # NO_DATA)
        /\ \A cx \in Contexts({}, {}), a \in Addresses, m \in ModelIds,
              n \in {MIN_SWAP_AMOUNT - 1, MIN_SWAP_AMOUNT, ONE_GAS, 2 * ONE_TOKEN} :
            LET b == buy_compute(store, cx, a, m, n)
                s == sell_compute(store, cx, a, m, n)
                p == onNEP17Payment(store, [cx EXCEPT !.caller = GAS_SCRIPT], a, n, m)
            IN  /\ ~b.ok /\ ~s.ok /\ ~p.ok
                /\ n >= MIN_SWAP_AMOUNT =>
                       /\ b.err = "Reentrancy detected"
                       /\ p.err = "Reentrancy detected"
                       /\ check_witness(cx, a) => s.err = "Reentrancy detected"

\* a nested swap was attempted and took the transaction down
NestedSwapRejected ==
    Idle /\ last.status = "fail" /\ last.err = "Reentrancy detected"

\* C8: when sell_compute or withdraw_gas hands control to the payee, the
\* burn, both supply decreases and the reserve debit are already in storage
EffectsPrecedePayout ==
    [][ Len(stack') = Len(stack) + 1 =>
          LET f == stack'[Len(stack')] IN
          /\ f.op = "sell_compute" =>
                LET seller == f.args[1]
                    t == sha256(f.args[2])
                    a == f.args[3]
                IN  /\ _get_balance(store', seller, t) = _get_balance(store, seller, t) - a
                    /\ tokenSupply(store', t) = tokenSupply(store, t) - a
                    /\ totalSupply(store') = totalSupply(store) - a
                    /\ _get_gas_reserve(store') = _get_gas_reserve(store) - f.ret
                    /\ f.ret > 0
          /\ f.op = "withdraw_gas" =>
                _get_gas_reserve(store') = _get_gas_reserve(store) - f.args[2] ]_vars

\* the payee of a sell is running
SellPayoutInFlight ==
    ~Idle /\ Top.op = "sell_compute" /\ last.op = "sell_compute" /\ last.status = "calling"

\* C9: a successful buy_compute(buyer, class, reserve_in) mints
\* floor((reserve_in - floor(reserve_in * fee_bps / 10000)) * 10^8 / price)
\* to the buyer, adds it to the class and the total supply, adds the full
\* reserve_in to the reserve counter and returns it; 1.0 GAS at price 0.5
\* and 30 bps gives fee 300000, net 99700000, minted 199400000
BuyComputeEffect ==
    [][ (last'.op = "buy_compute" /\ last'.status = "ok") =>
          LET buyer == last'.args[1]
              t == sha256(last'.args[2])
              reserve_in == last'.args[3]
              price == store.price[t]
              fee == MulDivFloor(reserve_in, store.swap_fee_bps, 10000)
              net == reserve_in - fee
              minted == TokensAtPrice(net, price)
          IN  /\ last'.ret = minted
              /\ _get_balance(store', buyer, t) = _get_balance(store, buyer, t) + minted
              /\ tokenSupply(store', t) = tokenSupply(store, t) + minted
              /\ totalSupply(store') = totalSupply(store) + minted
              /\ _get_gas_reserve(store') = _get_gas_reserve(store) + reserve_in
              /\ (price = Gas(50000000) /\ store.swap_fee_bps = 30 /\ reserve_in = 100000000)
                    => (fee = 300000 /\ net = 99700000 /\ minted = 199400000) ]_vars

\* 1.0 GAS bought 1.994 tokens at price 0.5 and 30 bps
BuyScenarioReached ==
    /\ last.op = "buy_compute" /\ last.status = "ok"
    /\ last.args[3] = ONE_GAS /\ last.ret = 199400000
    /\ store.swap_fee_bps = 30 /\ store.price[sha256(last.args[2])] = Gas(50000000)

\* C10: a successful sell_compute(seller, class, amount_in) takes amount_in
\* from the seller, the class supply and the total supply, takes
\* net = gross - floor(gross * fee_bps / 10000), gross = floor(amount_in *
\* price / 10^8), from the reserve counter, pays net to the seller and
\* returns net; 2.0 tokens at price 0.5 and 30 bps give gross 100000000,
\* fee 300000, net 99700000
SellComputeEffect ==
    [][ (last'.op = "sell_compute" /\ last'.status # "fail" /\ Len(stack') >= Len(stack)) =>
          LET seller == last'.args[1]
              t == sha256(last'.args[2])
              amount_in == last'.args[3]
              price == store.price[t]
              gross == GasAtPrice(amount_in, price)
              fee == MulDivFloor(gross, store.swap_fee_bps, 10000)
              net == gross - fee
          IN  /\ last'.ret = net
              /\ _get_balance(store', seller, t) = _get_balance(store, seller, t) - amount_in
              /\ tokenSupply(store', t) = tokenSupply(store, t) - amount_in
              /\ totalSupply(store') = totalSupply(store) - amount_in
              /\ _get_gas_reserve(store') = _get_gas_reserve(store) - net
              /\ store'.gas_held = store.gas_held - net
              /\ (price = Gas(50000000) /\ store.swap_fee_bps = 30 /\ amount_in = 200000000)
                    => (gross = 100000000 /\ fee = 300000 /\ net = 99700000) ]_vars

\* 2.0 tokens sold for 0.997 GAS at price 0.5 and 30 bps
SellScenarioReached ==
    /\ last.op = "sell_compute" /\ last.status = "ok"
    /\ last.args[3] = 2 * ONE_TOKEN /\ last.ret = 99700000
    /\ store.swap_fee_bps = 30 /\ store.price[sha256(last.args[2])] = Gas(50000000)

\* What get_sell_quote gives for every stored balance, at the class's current
\* price and the current fee: the payable obligations of the reserve
Obligations(s) ==
    SumOver(DOMAIN s.balance,
            [k \in DOMAIN s.balance |->
                get_sell_quote(s, s.token_data[k[2]].model_id, s.balance[k])])

\* C16: between invocations the reserve counter is at least the total of
\* what get_sell_quote gives for all circulating balances of all classes at
\* the current prices and fee
ReserveCoversObligations ==
    Idle => _get_gas_reserve(store) >= Obligations(store)

\* C35: the reserve counter never exceeds the GAS the contract has received
\* through onNEP17Payment and not paid out again by sell_compute or
\* withdraw_gas, direct calls of buy_compute included
ReserveCounterBacked ==
    store.gas_reserve <= store.gas_held

-----------------------------------------------------------------------------
(* The market: one holder trading one class at several prices and fees     *)

\* A price above the smallest payment's worth of a token: 1000 GAS per token
DustPrice == <<1000, 0>>

UMarket ==
    [ failures    |-> "all",
      trace_args  |-> TRUE,
      callers     |-> {"dao", "alice"},
      signers     |-> {"alice"},
      holders     |-> {"alice"},
      providers   |-> {"alice"},
      models      |-> {"gpt4"},
      swap_models |-> {"gpt4"},
      max_supply  |-> MaxSupply,
      max_reserve |-> MaxMarketReserve,
      tokens      |-> {sha256("gpt4")},
      prices      |-> {Gas(50000000), DustPrice},
      floors      |-> {Gas(0)},
      gas_amounts |-> {MIN_SWAP_AMOUNT, ONE_GAS},
      deposits    |-> {ONE_GAS},
      amounts     |-> {},
      allowances  |-> {0},
      fees        |-> {5, DEFAULT_SWAP_FEE_BPS},
      assets      |-> {GAS_SCRIPT},
      data        |-> {NO_DATA},
      names       |-> {"home"},
      scores      |-> {DEFAULT_REPUTATION},
      qualities   |-> {MAX_QUALITY_SCORE},
      durations   |-> {MIN_LOCK_BLOCKS},
      block_steps |-> {MIN_LOCK_BLOCKS},
      sell_all    |-> TRUE,
      max_mints   |-> MaxMints ]

NextMarket ==
    \/ UpdatePriceOracle(UMarket)
    \/ SetSwapFee(UMarket)
    \/ BuyCompute(UMarket)
    \/ OnNEP17Payment(UMarket)
    \/ SellCompute(UMarket)
    \/ WithdrawGas(UMarket)

SpecMarket == Init /\ [][NextMarket]_vars

-----------------------------------------------------------------------------
(* Properties of the market, checked under SpecMarket                      *)

\* The calls an account of the market can make between two transactions
MarketCalls ==
    {[caller |-> c, signer |-> g, now |-> height] :
        c \in UMarket.callers, g \in UMarket.signers}

\* The sales of the market: the seller's whole balance of the class
MarketSales ==
    {<<seller, m, _get_balance(store, seller, sha256(m))>> :
        seller \in UMarket.holders, m \in UMarket.swap_models}

\* The purchases of the market
MarketBuys ==
    {<<buyer, m, g>> : buyer \in UMarket.holders, m \in UMarket.swap_models,
                       g \in UMarket.gas_amounts}

\* A swap that succeeds returns the quote of the state it started in
SwapReturnsQuote ==
    /\ (last'.op = "buy_compute" /\ last'.status = "ok")
          => last'.ret = get_buy_quote(store, last'.args[2], last'.args[3])
    /\ (last'.op = "sell_compute" /\ last'.status = "ok")
          => last'.ret = get_sell_quote(store, last'.args[2], last'.args[3])

\* A nonzero buy quote is what buy_compute mints on an unpaused contract with
\* no swap in flight
BuyQuoteHonoured ==
    \A cx \in MarketCalls, b \in MarketBuys :
        LET quote == get_buy_quote(store, b[2], b[3])
            r == buy_compute(store, cx, b[1], b[2], b[3])
        IN  /\ r.ok => r.ret = quote
            /\ (quote > 0 /\ ~_is_paused(store) /\ ~_is_reentrancy_locked(store))
                  => (r.ok /\ r.ret = quote)

\* A nonzero sell quote is what sell_compute hands to GAS.transfer for a
\* witnessed seller with that much available, on an unpaused contract with no
\* swap in flight, when the reserve counter covers it
SellQuoteHonoured ==
    \A cx \in MarketCalls, c \in MarketSales :
        Payable(c[2], c[3]) =>
        LET quote == get_sell_quote(store, c[2], c[3])
            r == sell_compute(store, cx, c[1], c[2], c[3])
        IN  /\ r.ok => (r.ret = quote /\ r.ext.amount = quote)
            /\ (/\ quote > 0
                /\ ~_is_paused(store) /\ ~_is_reentrancy_locked(store)
                /\ check_witness(cx, c[1])
                /\ availableBalanceOf(store, c[1], sha256(c[2])) >= c[3]
                /\ _get_gas_reserve(store) >= quote)
                  => (r.ok /\ r.ret = quote /\ r.ext.amount = quote)

RoundTrip ==
    /\ last.op = "buy_compute" /\ last.status = "ok"
    /\ last'.op = "sell_compute" /\ last'.status = "ok"
    /\ last'.args[1] = last.args[1] /\ last'.args[2] = last.args[2]
    /\ last'.args[3] = last.ret

\* C12: a buy_compute of reserve_in followed at once by the sell_compute of
\* the minted amount never pays out more than reserve_in, and pays out
\* strictly less whenever the fee of the buy leg,
\* floor(reserve_in * fee_bps / 10000), is positive
RoundTripNeverGains ==
    [][ RoundTrip =>
          LET reserve_in == last.args[3]
              payout == last'.ret
              buy_fee == MulDivFloor(reserve_in, store.swap_fee_bps, 10000)
          IN  /\ payout <= reserve_in
              /\ buy_fee > 0 => payout < reserve_in ]_vars

\* 1.0 GAS bought 1.994 tokens at 30 bps, and their sale paid 0.994009 GAS
RoundTripAtDefaultFee ==
    /\ last.op = "sell_compute" /\ last.status = "ok"
    /\ store.swap_fee_bps = 30 /\ store.price[sha256(last.args[2])] = Gas(50000000)
    /\ last.args[3] = 199400000 /\ last.ret = 99400900
    /\ store.token_data[sha256(last.args[2])].total_mints = 1
    /\ tokenSupply(store, sha256(last.args[2])) = 0

\* C12 as stated: the round trip pays out strictly less than reserve_in at
\* every reserve_in >= MIN_SWAP_AMOUNT, every price and every fee
RoundTripAlwaysLoses ==
    [][ RoundTrip => last'.ret < last.args[3] ]_vars

-----------------------------------------------------------------------------
(* The swap guards: payments and sales that the engine has to turn down    *)

\* A price below the smallest sale's worth of a unit of GAS
TinyPrice == Gas(1)

UGuard ==
    [ failures    |-> "all",
      trace_args  |-> TRUE,
      callers     |-> {"dao", "alice"},
      signers     |-> {"alice"},
      holders     |-> {"alice"},
      providers   |-> {"alice"},
      models      |-> {"gpt4"},
      swap_models |-> {"gpt4"},
      max_supply  |-> MaxSupply,
      max_reserve |-> MaxMarketReserve,
      tokens      |-> {sha256("gpt4")},
      prices      |-> {TinyPrice, Gas(50000000), DustPrice},
      floors      |-> {Gas(0)},
      gas_amounts |-> {MIN_SWAP_AMOUNT - 1, MIN_SWAP_AMOUNT, ONE_GAS},
      deposits    |-> {ONE_GAS},
      amounts     |-> {MaxSupply + ONE_TOKEN},
      allowances  |-> {0},
      fees        |-> {DEFAULT_SWAP_FEE_BPS},
      assets      |-> {GAS_SCRIPT},
      data        |-> {NO_DATA},
      names       |-> {"home"},
      scores      |-> {DEFAULT_REPUTATION},
      qualities   |-> {MAX_QUALITY_SCORE},
      durations   |-> {MIN_LOCK_BLOCKS},
      block_steps |-> {MIN_LOCK_BLOCKS},
      sell_all    |-> TRUE,
      max_mints   |-> MaxMints ]

NextGuard ==
    \/ UpdatePriceOracle(UGuard)
    \/ BuyCompute(UGuard)
    \/ OnNEP17Payment(UGuard)
    \/ SellCompute(UGuard)
    \/ WithdrawGas(UGuard)
    \/ Pause(UGuard)
    \/ Resume_(UGuard)

SpecGuard == Init /\ [][NextGuard]_vars

\* The calls an account can make between two transactions
GuardCalls ==
    {[caller |-> c, signer |-> g, now |-> height] :
        c \in UGuard.callers, g \in UGuard.signers}

\* A purchase that buy_compute has to turn down: the contract is paused, the
\* payment is below the minimum, the class has no price, or the payment net
\* of the fee is worth less than one unit of the token
BuyToReject(model_id, gas_amount) ==
    LET token_id == sha256(model_id)
        net_gas == gas_amount - MulDivFloor(gas_amount, store.swap_fee_bps, 10000)
    IN  \/ store.paused
        \/ gas_amount < 1000
        \/ ~Has(store.price, token_id)
        \/ (Has(store.price, token_id) /\ ~PriceFits(1, net_gas, store.price[token_id]))

\* A failed buy_compute or sell_compute leaves every balance, every supply
\* and the reserve counter as they were
FailedSwapChangesNothing(op) ==
    (last'.op = op /\ last'.status = "fail") =>
        /\ store'.balance = store.balance
        /\ store'.supply = store.supply
        /\ totalSupply(store') = totalSupply(store)
        /\ _get_gas_reserve(store') = _get_gas_reserve(store)

\* C14: buy_compute is rejected when the contract is paused, when reserve_in
\* is below MIN_SWAP_AMOUNT, when the class has no price, and when the
\* minted amount would be 0; a rejected buy_compute mints nothing and leaves
\* the reserve counter unchanged
BuyComputeRejects ==
    /\ [](\A cx \in GuardCalls, buyer \in UGuard.holders, m \in UGuard.swap_models,
             g \in UGuard.gas_amounts :
               BuyToReject(m, g) => ~buy_compute(store, cx, buyer, m, g).ok)
    /\ [][FailedSwapChangesNothing("buy_compute")]_vars

\* A payment of 1000 units at 1000 GAS per token was turned down as dust
DustBuyRejected ==
    /\ last.op = "buy_compute" /\ last.status = "fail"
    /\ last.err = "Compute amount too small"
    /\ store.price[sha256("gpt4")] = DustPrice /\ ~store.paused

\* The sales of the guard: the seller's whole balance, or more than exists
GuardSales ==
    {<<seller, m, a>> : seller \in UGuard.holders, m \in UGuard.swap_models,
                        a \in UGuard.amounts \cup
                             {_get_balance(store, s2, sha256(m2)) :
                                s2 \in UGuard.holders, m2 \in UGuard.swap_models}}

\* A sale that sell_compute has to turn down: the seller's available balance
\* is below the amount, or the class is priced and the net payout is 0 or
\* more than the reserve counter
SellToReject(seller, model_id, compute_amount) ==
    LET token_id == sha256(model_id)
        gross == GasAtPrice(compute_amount, store.price[token_id])
        net == gross - MulDivFloor(gross, store.swap_fee_bps, 10000)
    IN  \/ availableBalanceOf(store, seller, token_id) < compute_amount
        \/ (Has(store.price, token_id) /\ (net = 0 \/ _get_gas_reserve(store) < net))

\* C15: sell_compute is rejected when the seller's available balance is
\* below amount_in, when the net payout is 0 and when the reserve counter is
\* below the net payout, changing nothing; the reserve counter is never
\* negative under buy_compute, sell_compute, withdraw_gas and onNEP17Payment
SellComputeRejects ==
    /\ [](\A cx \in GuardCalls, c \in GuardSales :
             (Payable(c[2], c[3]) /\ SellToReject(c[1], c[2], c[3]))
                => ~sell_compute(store, cx, c[1], c[2], c[3]).ok)
    /\ [](_get_gas_reserve(store) >= 0)
    /\ [][FailedSwapChangesNothing("sell_compute")]_vars

\* A sale was turned down because the reserve counter, though positive, was
\* below its net payout
UnderfundedSellRejected ==
    /\ last.op = "sell_compute" /\ last.status = "fail"
    /\ last.err = "Insufficient GAS reserve"
    /\ _get_gas_reserve(store) > 0

-----------------------------------------------------------------------------
(* Transfers: owners, approved spenders, locked balances and a contract    *)
(* as recipient                                                            *)

UTransfer ==
    [ failures    |-> "all",
      trace_args  |-> TRUE,
      callers     |-> {"dao", "alice"},
      signers     |-> {"dao"},
      holders     |-> {"alice", "bot"},
      providers   |-> {"alice"},
      models      |-> {"gpt4"},
      swap_models |-> {"gpt4"},
      max_supply  |-> MaxLedgerSupply,
      max_reserve |-> MaxReserve,
      tokens      |-> {sha256("gpt4")},
      prices      |-> {Gas(99700000)},
      floors      |-> {Gas(0)},
      gas_amounts |-> {ONE_GAS},
      deposits    |-> {ONE_GAS},
      amounts     |-> {ONE_TOKEN},
      allowances  |-> {0, ONE_TOKEN - 1, ONE_TOKEN},
      fees        |-> {DEFAULT_SWAP_FEE_BPS},
      assets      |-> {GAS_SCRIPT},
      data        |-> {NO_DATA},
      names       |-> {"home"},
      scores      |-> {DEFAULT_REPUTATION},
      qualities   |-> {MAX_QUALITY_SCORE},
      durations   |-> {MIN_LOCK_BLOCKS},
      block_steps |-> {MIN_LOCK_BLOCKS},
      sell_all    |-> FALSE,
      max_mints   |-> MaxMints ]

NextTransfer ==
    \/ Mint(UTransfer)
    \/ Approve(UTransfer)
    \/ Lock(UTransfer)
    \/ Transfer(UTransfer)
    \/ CalleeReturns
    \/ CalleeFaults

SpecTransfer == Init /\ [][NextTransfer]_vars

\* The step in which transfer runs up to its return or its callback
TransferStep ==
    /\ last'.op = "transfer" /\ last'.status # "fail"
    /\ Len(stack') >= Len(stack)

\* A transfer fails, at the top of a transaction or in a call of a callee
TransferFails == last'.op = "transfer" /\ last'.status = "fail"

\* transfer(from, to, amount, class) by cx has the authority it needs: from
\* is witnessed, or the caller's allowance from from for the class covers it
Authorised(cx, from, amount, token_id) ==
    check_witness(cx, from) \/ allowance(store, from, cx.caller, token_id) >= amount

\* What transfer answers to every call that can be made in this state
TransferGuarded ==
    \A cx \in Contexts(UTransfer.callers, UTransfer.signers),
       from \in UTransfer.holders, to \in UTransfer.holders,
       a \in UTransfer.amounts, t \in UTransfer.tokens :
        LET r == transfer(store, cx, from, to, a, t)
            funded == _get_balance(store, from, t) - _get_locked_amount(store, from, t) >= a
        IN  /\ r.ok => (Authorised(cx, from, a, t) /\ funded)
            /\ (~store.paused /\ ~Authorised(cx, from, a, t)) => r.err = "Not authorized"
            /\ (~store.paused /\ Authorised(cx, from, a, t) /\ ~funded)
                  => r.err = "Insufficient unlocked balance"

\* C17: transfer(from, to, amount, class) succeeds only if from is witnessed
\* or the caller's allowance from from for the class is >= amount, and only
\* if balance(from, class) - locked(from, class) >= amount; on an unpaused
\* contract a positive amount without that authority fails with "Not
\* authorized", and with it but without the funds with "Insufficient unlocked
\* balance"; a failed transfer leaves every balance, index and allowance as
\* before the transaction, and what a transfer leaves to from covers from's
\* locked amount
TransferNeedsAuthorityAndFunds ==
    /\ []TransferGuarded
    /\ [][ /\ TransferFails =>
                (/\ store'.balance = saved.balance
                 /\ store'.account_tokens = saved.account_tokens
                 /\ store'.approved = saved.approved
                 /\ Idle => store' = store)
           /\ TransferStep =>
                _get_balance(store', last'.args[1], last'.args[4])
                   >= _get_locked_amount(store', last'.args[1], last'.args[4]) ]_vars

\* A spender moved the owner's tokens on an allowance, without the owner's
\* witness
SpenderTransferred ==
    /\ last.op = "transfer" /\ last.status = "ok"
    /\ last.args[1] = "alice" /\ last.caller = "dao" /\ last.signer = "dao"
    /\ allowance(store, "alice", "dao", last.args[4]) >= last.args[3]

\* C18: a successful transfer(from, to, amount, class) takes amount from
\* balance(from, class) and adds amount to balance(to, class), which is no
\* change when from = to, and leaves every other balance, the class
\* supplies, the total supply, the locks, the prices and the reserve counter
\* as they were
TransferEffect ==
    [][ TransferStep =>
          LET from == last'.args[1]
              to == last'.args[2]
              amount == last'.args[3]
              token_id == last'.args[4]
          IN  /\ \A o \in Addresses, t \in TokenIds :
                    _get_balance(store', o, t) =
                        _get_balance(store, o, t)
                          - (IF o = from /\ t = token_id THEN amount ELSE 0)
                          + (IF o = to /\ t = token_id THEN amount ELSE 0)
              /\ store'.supply = store.supply
              /\ totalSupply(store') = totalSupply(store)
              /\ store'.lock = store.lock
              /\ store'.total_locked = store.total_locked
              /\ store'.price = store.price
              /\ _get_gas_reserve(store') = _get_gas_reserve(store) ]_vars

\* An owner transferred to itself
SelfTransferDone ==
    /\ last.op = "transfer" /\ last.status = "ok"
    /\ last.args[1] = last.args[2]
    /\ _get_balance(store, last.args[1], last.args[4]) >= last.args[3]

\* C19: a transfer to a contract hands control to the recipient's callback
\* with the debit and the credit applied, inside the transaction that made
\* the transfer; when the callback faults the transaction ends with the
\* storage, both balances and both owner indices among it, as it was before
\* the transaction
TransferCallback ==
    [][ /\ (TransferStep /\ last'.args[2] \in Contracts) =>
              /\ last'.status = "calling"
              /\ stack' = Append(stack, stack'[Len(stack')])
              /\ stack'[Len(stack')].op = "transfer"
              /\ stack'[Len(stack')].to = last'.args[2]
              /\ _get_balance(store', last'.args[2], last'.args[4])
                    = _get_balance(store, last'.args[2], last'.args[4])
                        + (IF last'.args[1] = last'.args[2] THEN 0 ELSE last'.args[3])
              /\ _get_balance(store', last'.args[1], last'.args[4])
                    = _get_balance(store, last'.args[1], last'.args[4])
                        - (IF last'.args[1] = last'.args[2] THEN 0 ELSE last'.args[3])
              /\ saved' = saved
        /\ Idle => saved = store
        /\ (~Idle /\ ~Idle') => saved' = saved
        /\ (~Idle /\ last'.status = "fail") =>
              /\ stack' = <<>>
              /\ store' = saved
              /\ store'.balance = saved.balance
              /\ store'.account_tokens = saved.account_tokens ]_vars

\* The recipient's callback faulted and the owner has the tokens again
CallbackFaulted ==
    /\ last.op = "transfer" /\ last.status = "fail" /\ last.err = "callee fault"
    /\ Idle
    /\ \E t \in UTransfer.tokens :
          /\ _get_balance(store, "alice", t) > 0
          /\ _get_balance(store, "bot", t) = 0

-----------------------------------------------------------------------------
(* Price floors: the oracle's prices against the admin's floors            *)

UFloor ==
    [ failures    |-> "all",
      trace_args  |-> TRUE,
      callers     |-> {"dao", "alice"},
      signers     |-> {"dao"},
      holders     |-> {"alice"},
      providers   |-> {"alice"},
      models      |-> {"gpt4", "llama"},
      swap_models |-> {"gpt4", "llama"},
      max_supply  |-> MaxSupply,
      max_reserve |-> MaxReserve,
      tokens      |-> {sha256("gpt4"), sha256("llama")},
      prices      |-> {Gas(0), Gas(50000000), Gas(99700000)},
      floors      |-> {Gas(0), Gas(80000000)},
      gas_amounts |-> {ONE_GAS},
      deposits    |-> {ONE_GAS},
      amounts     |-> {ONE_TOKEN},
      allowances  |-> {0},
      fees        |-> {DEFAULT_SWAP_FEE_BPS},
      assets      |-> {GAS_SCRIPT},
      data        |-> {NO_DATA},
      names       |-> {"home"},
      scores      |-> {DEFAULT_REPUTATION},
      qualities   |-> {MAX_QUALITY_SCORE},
      durations   |-> {MIN_LOCK_BLOCKS},
      block_steps |-> {MIN_LOCK_BLOCKS},
      sell_all    |-> FALSE,
      max_mints   |-> MaxMints ]

NextFloor ==
    \/ UpdatePriceOracle(UFloor)
    \/ SetPriceFloor(UFloor)
    \/ SetOracle(UFloor)
    \/ Pause(UFloor)
    \/ Resume_(UFloor)

SpecFloor == Init /\ [][NextFloor]_vars

\* new_price_gas < min_price
BelowFloor(new_price_gas, min_price) ==
    \/ new_price_gas[1] < min_price[1]
    \/ (new_price_gas[1] = min_price[1] /\ new_price_gas[2] < min_price[2])

\* What update_price_oracle answers to every call that can be made in this
\* state: a price below the class's floor is turned down, by "Price below
\* minimum floor" when the price is positive (a price of 0 is turned down as
\* not positive) and the oracle calls on an unpaused contract, and without
\* a floor the oracle's every positive price becomes the price of the class
FloorGuarded ==
    \A cx \in Contexts(UFloor.callers, UFloor.signers), m \in UFloor.swap_models,
       p \in UFloor.prices :
        LET r == update_price_oracle(store, cx, m, p)
            token_id == sha256(m)
            called == ~store.paused /\ cx.caller \in store.oracle
        IN  /\ (Has(store.min_price, token_id) /\ BelowFloor(p, store.min_price[token_id]))
                  => (/\ ~r.ok
                      /\ (called /\ GasPositive(p))
                            => r.err = "Price below minimum floor")
            /\ (~Has(store.min_price, token_id) /\ called /\ GasPositive(p))
                  => (r.ok /\ r.st.price[token_id] = p)

\* C20: update_price_oracle with a price below the class's active floor
\* fails, with "Price below minimum floor", and leaves the price unchanged;
\* set_price_floor(class, 0) removes the floor of the class, after which the
\* oracle's every positive price is accepted for it
PriceFloorEnforced ==
    /\ []FloorGuarded
    /\ [][ /\ (last'.op = "update_price_oracle" /\ last'.status = "fail")
                  => store'.price = store.price
           /\ (last'.op = "set_price_floor" /\ last'.status = "ok"
                  /\ last'.args[2] = Gas(0))
                  => ~Has(store'.min_price, sha256(last'.args[1])) ]_vars

\* A price of 0.5 GAS was turned down under a floor of 0.8 GAS
BelowFloorRejected ==
    /\ last.op = "update_price_oracle" /\ last.status = "fail"
    /\ last.err = "Price below minimum floor"
    /\ \E t \in UFloor.tokens :
          Has(store.min_price, t) /\ store.min_price[t] = Gas(80000000)

\* C21: in every reachable state a stored price is > 0, and a class that
\* has both a price and a floor has a price >= the floor
PriceRespectsFloor ==
    \A t \in DOMAIN store.price :
        /\ GasPositive(store.price[t])
        /\ Has(store.min_price, t) => GasAtLeast(store.price[t], store.min_price[t])

\* C22: an entry of the price history, once written for (class, height), is
\* neither changed nor removed by any later invocation
PriceHistoryAppendOnly ==
    [][ \A k \in DOMAIN store.price_history :
            /\ Has(store'.price_history, k)
            /\ store'.price_history[k] = store.price_history[k] ]_vars

\* A call of update_price_oracle that has to be turned down: the contract is
\* paused, the price is not positive, the caller is no oracle, or the price
\* is below the floor of the class
UpdateToReject(cx, model_id, new_price_gas) ==
    \/ store.paused
    \/ ~(new_price_gas[1] > 0 \/ new_price_gas[2] > 0)
    \/ cx.caller \notin store.oracle
    \/ (Has(store.min_price, sha256(model_id))
          /\ BelowFloor(new_price_gas, store.min_price[sha256(model_id)]))

\* What update_price_oracle answers to every call that can be made in this
\* state: a call to turn down fails with the storage as it found it
UpdateChecked ==
    \A cx \in Contexts(UFloor.callers, UFloor.signers), m \in UFloor.swap_models,
       p \in UFloor.prices :
        LET r == update_price_oracle(store, cx, m, p)
        IN  /\ UpdateToReject(cx, m, p) => (~r.ok /\ r.st = store)
            /\ r.ok => cx.caller \in store.oracle

\* C23: update_price_oracle checks the pause flag, new_price > 0, the
\* caller's oracle role and the floor before it writes: a rejected update
\* leaves the price, the price history, the last-oracle record and the class
\* metadata unchanged, and a price changes only in a successful
\* update_price_oracle of a caller that holds the oracle role
UpdateChecksBeforeWrites ==
    /\ []UpdateChecked
    /\ [][ /\ (last'.op = "update_price_oracle" /\ last'.status = "fail") =>
                 /\ store'.price = store.price
                 /\ store'.price_history = store.price_history
                 /\ store'.price_oracle = store.price_oracle
                 /\ store'.token_data = store.token_data
           /\ store'.price # store.price =>
                 /\ last'.op = "update_price_oracle" /\ last'.status = "ok"
                 /\ last'.caller \in store.oracle ]_vars

\* An address whose oracle role was revoked was turned down, the class
\* keeping the price an oracle gave it
FormerOracleRejected ==
    /\ last.op = "update_price_oracle" /\ last.status = "fail"
    /\ last.err = "Not authorized oracle"
    /\ store.oracle = {"alice"}
    /\ \E t \in UFloor.tokens :
          Has(store.price_oracle, t) /\ store.price_oracle[t] = "dao"

-----------------------------------------------------------------------------
(* Collateral: one owner locking, relocking and unlocking one class at     *)
(* several heights, with durations on both sides of the limits             *)

URelock ==
    [ failures    |-> "all",
      trace_args  |-> TRUE,
      callers     |-> {"dao"},
      signers     |-> {"dao", "alice"},
      holders     |-> {"alice"},
      providers   |-> {"alice"},
      models      |-> {"gpt4"},
      swap_models |-> {"gpt4"},
      max_supply  |-> MaxLedgerSupply,
      max_reserve |-> MaxReserve,
      tokens      |-> {sha256("gpt4")},
      prices      |-> {Gas(99700000)},
      floors      |-> {Gas(0)},
      gas_amounts |-> {ONE_GAS},
      deposits    |-> {ONE_GAS},
      amounts     |-> {0, ONE_TOKEN},
      allowances  |-> {0},
      fees        |-> {DEFAULT_SWAP_FEE_BPS},
      assets      |-> {GAS_SCRIPT},
      data        |-> {"gpt4"},
      names       |-> {"home"},
      scores      |-> {DEFAULT_REPUTATION},
      qualities   |-> {MAX_QUALITY_SCORE},
      durations   |-> {MIN_LOCK_BLOCKS - 1, MIN_LOCK_BLOCKS, MAX_LOCK_BLOCKS,
                       MAX_LOCK_BLOCKS + 1},
      block_steps |-> {MIN_LOCK_BLOCKS \div 2, MIN_LOCK_BLOCKS},
      sell_all    |-> FALSE,
      max_mints   |-> MaxMints ]

NextRelock ==
    \/ Mint(URelock)
    \/ Lock(URelock)
    \/ Unlock(URelock)
    \/ AdvanceBlock(URelock)

SpecRelock == Init /\ [][NextRelock]_vars

LaterOf(a, b) == IF a > b THEN a ELSE b

\* The lock record of a key and the locked total of the key are one: both
\* are there or neither is, and the total is the record's amount
OneLockRecord ==
    \A k \in DOMAIN store.lock \cup DOMAIN store.total_locked :
        /\ Has(store.lock, k) /\ Has(store.total_locked, k)
        /\ store.total_locked[k] = store.lock[k].amount
        /\ store.lock[k].amount > 0

\* A successful lock on a key that holds a lock adds the amount and keeps
\* the later of the two expiries
RelockStep ==
    (last'.op = "lock" /\ last'.status = "ok") =>
        LET k == <<last'.args[1], last'.args[2]>> IN
        Has(store.lock, k) =>
            /\ store'.lock[k].amount = store.lock[k].amount + last'.args[3]
            /\ store'.lock[k].unlock_block =
                   LaterOf(store.lock[k].unlock_block, height + last'.args[4])
            /\ lockedBalanceOf(store', k[1], k[2]) = store'.lock[k].amount

\* No step but a successful unlock takes a lock away, lowers its amount or
\* brings its expiry forward
LockOnlyGrows ==
    ~(last'.op = "unlock" /\ last'.status = "ok") =>
        \A k \in DOMAIN store.lock :
            /\ Has(store'.lock, k)
            /\ store'.lock[k].amount >= store.lock[k].amount
            /\ store'.lock[k].unlock_block >= store.lock[k].unlock_block

\* C24: a lock on an (owner, class) that holds a lock adds the amount to the
\* lock and sets unlock_block to the later of the lock's unlock_block and
\* current height + duration; as long as no unlock succeeds the locked amount
\* never shrinks and unlock_block never decreases; and an (owner, class) has
\* one lock record, whose amount is the locked total of the pair
RelockAddsAndExtends ==
    []OneLockRecord /\ [][RelockStep /\ LockOnlyGrows]_vars

\* A second lock, shorter than what was left of the first: the amounts are
\* added and the first lock's expiry is kept
RelockKeptLaterExpiry ==
    /\ last.op = "lock" /\ last.status = "ok"
    /\ LET k == <<last.args[1], last.args[2]>> IN
        /\ store.lock[k].amount = 2 * ONE_TOKEN
        /\ store.lock[k].unlock_block > height + last.args[4]
        /\ store.lock[k].created_at < height

\* What unlock answers to every witnessed call on a lock that exists, in this
\* state: "Lock not expired" and nothing written below unlock_block; from
\* unlock_block on, the record deleted, nothing locked, the whole balance
\* available and the balance as it was
UnlockChecked ==
    \A cx \in Contexts(URelock.callers, URelock.signers),
       owner \in URelock.holders, t \in URelock.tokens :
        LET r == unlock(store, cx, owner, t)
            k == <<owner, t>>
        IN  (Has(store.lock, k) /\ check_witness(cx, owner) /\ ~store.paused) =>
                IF height < store.lock[k].unlock_block
                THEN ~r.ok /\ r.err = "Lock not expired" /\ r.st = store
                ELSE /\ r.ok
                     /\ ~Has(r.st.lock, k)
                     /\ lockedBalanceOf(r.st, owner, t) = 0
                     /\ availableBalanceOf(r.st, owner, t) = _get_balance(r.st, owner, t)
                     /\ _get_balance(r.st, owner, t) = _get_balance(store, owner, t)

\* An unlock that failed wrote nothing; one that succeeded was made at or
\* after unlock_block, took the whole lock of its key away and nothing else
UnlockStep ==
    last'.op = "unlock" =>
        IF last'.status = "fail" THEN store' = store
        ELSE LET k == <<last'.args[1], last'.args[2]>> IN
             /\ Has(store.lock, k) /\ height >= store.lock[k].unlock_block
             /\ ~Has(store'.lock, k)
             /\ lockedBalanceOf(store', k[1], k[2]) = 0
             /\ availableBalanceOf(store', k[1], k[2]) = _get_balance(store, k[1], k[2])
             /\ store'.balance = store.balance
             /\ store'.total_supply = store.total_supply

\* C25: unlock below the lock's unlock_block fails with "Lock not expired"
\* and leaves the lock as it is; at unlock_block or later it succeeds, deletes
\* the lock record and releases the whole locked amount (nothing locked, the
\* full balance available); the balance is not changed by it
UnlockAtExpiry ==
    []UnlockChecked /\ [][UnlockStep]_vars

\* An unlock at the very height the lock expires, of an owner who had both
\* tokens of the balance locked
UnlockedOnExpiryBlock ==
    /\ last.op = "unlock" /\ last.status = "ok"
    /\ height = MIN_LOCK_BLOCKS
    /\ LET k == <<last.args[1], last.args[2]>> IN
        /\ ~Has(store.lock, k)
        /\ availableBalanceOf(store, k[1], k[2]) = 2 * ONE_TOKEN

\* A call of lock that has to be turned down: the duration is outside
\* [MIN_LOCK_BLOCKS, MAX_LOCK_BLOCKS], the amount is not positive, the owner
\* is not witnessed, or the amount is more than balance - locked
LockToReject(cx, owner, t, amount, duration_blocks) ==
    \/ duration_blocks < 100 \/ duration_blocks > 2102400
    \/ amount <= 0
    \/ ~(owner = cx.signer \/ owner = cx.caller)
    \/ amount > GetInt(store.balance, <<owner, t>>) - GetInt(store.total_locked, <<owner, t>>)

\* What lock answers to every call that can be made in this state
LockChecked ==
    \A cx \in Contexts(URelock.callers, URelock.signers), owner \in URelock.holders,
       t \in URelock.tokens, a \in URelock.amounts, d \in URelock.durations :
        LET r == lock(store, cx, owner, t, a, d) IN
        IF LockToReject(cx, owner, t, a, d)
        THEN ~r.ok /\ r.st = store
        ELSE ~store.paused => r.ok

\* C26: lock is rejected, and the locks and everything else stored are as
\* before, when the duration is outside [100, 2102400], the amount is not
\* positive, the caller is not witnessed as the owner, or the amount is more
\* than balance - locked; a call with none of these faults goes through
LockRejects ==
    []LockChecked
    /\ [][ (last'.op = "lock" /\ last'.status = "fail") =>
             /\ store' = store
             /\ last'.err \in {"Not authorized", "Amount must be positive",
                               "Invalid duration", "Insufficient unlocked balance"} ]_vars

\* A lock turned down for want of unlocked balance by an owner whose balance
\* would have covered it
LockBeyondAvailableRejected ==
    /\ last.op = "lock" /\ last.status = "fail"
    /\ last.err = "Insufficient unlocked balance"
    /\ \E owner \in URelock.holders, t \in URelock.tokens :
        /\ _get_balance(store, owner, t) >= ONE_TOKEN
        /\ availableBalanceOf(store, owner, t) = 0

\* The same chain with blocks that keep coming: a block is added whenever
\* one can be, up to the last height of the chain
SpecMaturity == Init /\ [][NextRelock]_vars /\ WF_vars(AdvanceBlock(URelock))

\* The lock of k can be unlocked by its owner at this height
Mature(k) == Has(store.lock, k) /\ height >= store.lock[k].unlock_block

\* The lock of k expires on this chain, and has not yet
Maturing(k) ==
    /\ Has(store.lock, k)
    /\ height < store.lock[k].unlock_block
    /\ store.lock[k].unlock_block <= MaxHeight

\* The owner's unlock of a mature lock goes through while nothing is paused
MatureUnlocks ==
    \A cx \in Contexts(URelock.callers, URelock.signers),
       owner \in URelock.holders, t \in URelock.tokens :
        (Mature(<<owner, t>>) /\ check_witness(cx, owner) /\ ~store.paused)
            => unlock(store, cx, owner, t).ok

\* A successful lock leaves an expiry of at most the height of the call +
\* MAX_LOCK_BLOCKS; no other step writes an expiry, and the height never
\* goes back, so a mature lock stays mature until a lock or unlock succeeds
MaturityStep ==
    /\ height' >= height
    /\ \A k \in DOMAIN store.lock \cup DOMAIN store'.lock :
          IF last'.op = "lock" /\ last'.status = "ok"
                /\ k = <<last'.args[1], last'.args[2]>>
          THEN /\ Has(store'.lock, k)
               /\ store'.lock[k].unlock_block <= height + MAX_LOCK_BLOCKS
               /\ store'.lock[k].unlock_block >= height + MIN_LOCK_BLOCKS
          ELSE IF last'.op = "unlock" /\ last'.status = "ok"
                    /\ k = <<last'.args[1], last'.args[2]>>
          THEN Mature(k) /\ ~Has(store'.lock, k)
          ELSE /\ Has(store.lock, k) /\ Has(store'.lock, k)
               /\ store'.lock[k].unlock_block = store.lock[k].unlock_block
               /\ Mature(k) => Mature(k)'

\* C39: every lock's unlock_block is at most the height of the most recent
\* successful lock call on its (owner, class) + MAX_LOCK_BLOCKS; so while
\* blocks keep coming, nothing is paused and the owner does not lock again,
\* unlock becomes enabled, and stays enabled until the owner unlocks
LockMatures ==
    /\ []MatureUnlocks
    /\ [][MaturityStep]_vars
    /\ \A owner \in URelock.holders, t \in URelock.tokens :
          Maturing(<<owner, t>>) ~>
              (Mature(<<owner, t>>)
                 \/ (Has(store.lock, <<owner, t>>)
                       /\ store.lock[<<owner, t>>].unlock_block > MaxHeight))

\* A lock has reached its expiry, its owner has not unlocked it yet, and
\* the chain has gone on to a call that left it alone
MatureLockWaiting ==
    /\ \E k \in DOMAIN store.lock :
          /\ Mature(k)
          /\ store.lock[k].unlock_block = MIN_LOCK_BLOCKS
          /\ store.lock[k].created_at = 0
    /\ height = MIN_LOCK_BLOCKS
    /\ last.op = "mint" /\ last.status = "ok"

-----------------------------------------------------------------------------
(* The provider registry: one provider registering, being rewarded and     *)
(* rated, while the admin hands the roles around                            *)

URegistry ==
    [ failures    |-> "all",
      trace_args  |-> TRUE,
      callers     |-> {"dao", "alice"},
      signers     |-> {"dao"},
      holders     |-> {"alice"},
      providers   |-> {"alice"},
      models      |-> {"gpt4"},
      swap_models |-> {"gpt4"},
      max_supply  |-> MaxLedgerSupply,
      max_reserve |-> MaxReserve,
      tokens      |-> {sha256("gpt4")},
      prices      |-> {Gas(99700000)},
      floors      |-> {Gas(0)},
      gas_amounts |-> {ONE_GAS},
      deposits    |-> {ONE_GAS},
      amounts     |-> {0, ONE_TOKEN},
      allowances  |-> {0},
      fees        |-> {DEFAULT_SWAP_FEE_BPS},
      assets      |-> {GAS_SCRIPT},
      data        |-> {"gpt4"},
      names       |-> {"home"},
      scores      |-> {0 - 1, 0, MAX_REPUTATION, MAX_REPUTATION + 1},
      qualities   |-> {MAX_QUALITY_SCORE},
      durations   |-> {MIN_LOCK_BLOCKS},
      block_steps |-> {MIN_LOCK_BLOCKS},
      sell_all    |-> FALSE,
      max_mints   |-> MaxMints ]

NextRegistry ==
    \/ RegisterProvider(URegistry)
    \/ MintRewards(URegistry)
    \/ UpdateProviderReputation(URegistry)
    \/ SetOracle(URegistry)
    \/ SetMinter(URegistry)
    \/ SetGovernance(URegistry)

SpecRegistry == Init /\ [][NextRegistry]_vars

ReputationInRange ==
    \A p \in DOMAIN store.provider :
        store.provider[p].reputation_score >= 0 /\ store.provider[p].reputation_score <= 100

\* What update_provider_reputation answers to every call that can be made in
\* this state: it goes through only for an oracle or the governance address,
\* a registered provider and a score within [0, 100], and then stores the
\* score; otherwise nothing is written
ReputationChecked ==
    \A cx \in Contexts(URegistry.callers, URegistry.signers),
       p \in URegistry.providers, sc \in URegistry.scores :
        LET r == update_provider_reputation(store, cx, p, sc) IN
        IF r.ok
        THEN /\ cx.caller \in store.oracle \/ cx.caller = store.governance
             /\ Has(store.provider, p)
             /\ sc >= 0 /\ sc <= 100
             /\ r.st.provider[p].reputation_score = sc
        ELSE r.st = store

\* A registration leaves the reputation at 50, and no step but a
\* registration or a reputation update changes a reputation
ReputationStep ==
    /\ (last'.op = "register_provider" /\ last'.status = "ok")
          => store'.provider[last'.caller].reputation_score = 50
    /\ \A p \in DOMAIN store.provider :
          store'.provider[p].reputation_score # store.provider[p].reputation_score
            => /\ last'.status = "ok"
               /\ last'.op \in {"register_provider", "update_provider_reputation"}

RegistrationChecked ==
    \A cx \in Contexts(URegistry.providers, URegistry.signers), n \in URegistry.names :
        LET r == register_provider(store, cx, n) IN
        ~store.paused =>
            /\ r.ok
            /\ r.st.provider[cx.caller].reputation_score = 50
            /\ r.st.provider[cx.caller].total_earned = 0
            /\ r.st.provider[cx.caller].active = TRUE
            /\ r.st.provider[cx.caller].name = n
            /\ \A p \in DOMAIN store.provider \ {cx.caller} :
                  r.st.provider[p] = store.provider[p]
            /\ r.st.balance = store.balance
            /\ r.st.supply = store.supply
            /\ r.st.total_supply = store.total_supply

\* A registration that was made: the profile of the caller, and of nobody
\* else, is the fresh one, and the token ledger is as before
RegistrationStep ==
    (last'.op = "register_provider" /\ last'.status = "ok") =>
        /\ DOMAIN store'.provider = DOMAIN store.provider \cup {last'.caller}
        /\ store'.provider[last'.caller] =
               [name |-> last'.args[1], reputation_score |-> 50, total_earned |-> 0,
                registered_at |-> height, active |-> TRUE]
        /\ \A p \in DOMAIN store.provider \ {last'.caller} :
              store'.provider[p] = store.provider[p]
        /\ store'.balance = store.balance
        /\ store'.supply = store.supply
        /\ store'.total_supply = store.total_supply

\* C28: register_provider gives the caller a profile of its own with
\* reputation 50, total_earned 0 and active true; called by a registered
\* provider it overwrites the profile, reputation 50 and total_earned 0 again
\* whatever was earned and rated before, and no token balance is changed
RegistrationOverwrites ==
    []RegistrationChecked /\ [][RegistrationStep]_vars

\* A provider who holds rewards has registered again: the tokens are there,
\* the earnings on the profile are back at 0
RewardedProviderRegisteredAgain ==
    /\ last.op = "register_provider" /\ last.status = "ok"
    /\ store.provider[last.caller].total_earned = 0
    /\ store.provider[last.caller].reputation_score = DEFAULT_REPUTATION
    /\ \E t \in URegistry.tokens : _get_balance(store, last.caller, t) = 2 * ONE_TOKEN

\* What mint_rewards answers to every call with a positive amount that can
\* be made in this state: "Not authorized to mint rewards" to a caller
\* without the minter role, "Provider not registered" to a minter naming an
\* address without a profile, nothing written in either case; otherwise the
\* provider's balance of the class, the class supply, the total supply and
\* the profile's total_earned each go up by the amount
RewardsChecked ==
    \A cx \in Contexts(URegistry.callers, URegistry.signers),
       p \in URegistry.providers, m \in URegistry.models, a \in URegistry.amounts :
        LET r == mint_rewards(store, cx, p, m, a)
            t == sha256(m)
        IN  /\ r.ok => (cx.caller \in store.minter /\ Has(store.provider, p))
            /\ ~r.ok => r.st = store
            /\ (~store.paused /\ a > 0) =>
                 IF cx.caller \notin store.minter
                 THEN ~r.ok /\ r.err = "Not authorized to mint rewards"
                 ELSE IF ~Has(store.provider, p)
                 THEN ~r.ok /\ r.err = "Provider not registered"
                 ELSE /\ r.ok
                      /\ GetInt(r.st.balance, <<p, t>>) = GetInt(store.balance, <<p, t>>) + a
                      /\ GetInt(r.st.supply, t) = GetInt(store.supply, t) + a
                      /\ r.st.total_supply = store.total_supply + a
                      /\ r.st.provider[p].total_earned = store.provider[p].total_earned + a

\* A mint_rewards that failed wrote nothing; one that was made was called by
\* a minter for a registered provider and added its amount four times over
RewardsStep ==
    last'.op = "mint_rewards" =>
        IF last'.status = "fail" THEN store' = store
        ELSE LET p == last'.args[1]
                 t == sha256(last'.args[2])
                 a == last'.args[3]
             IN  /\ last'.caller \in store.minter
                 /\ Has(store.provider, p)
                 /\ GetInt(store'.balance, <<p, t>>) = GetInt(store.balance, <<p, t>>) + a
                 /\ GetInt(store'.supply, t) = GetInt(store.supply, t) + a
                 /\ store'.total_supply = store.total_supply + a
                 /\ store'.provider[p].total_earned = store.provider[p].total_earned + a
                 /\ store'.provider[p].reputation_score = store.provider[p].reputation_score

\* C29: mint_rewards succeeds only for a caller holding the minter role and
\* a registered provider; a call with a positive amount fails with "Not
\* authorized to mint rewards" without the role and with "Provider not
\* registered" without the profile, and a failed call changes nothing; a
\* successful one raises the provider's balance of the class, the class
\* supply, the total supply and the profile's total_earned by exactly amount
RewardsMinted ==
    []RewardsChecked /\ [][RewardsStep]_vars

\* Rewards minted by an address that was given the minter role, after the
\* deployer lost it, to a provider who had earned before
GrantedMinterRewarded ==
    /\ last.op = "mint_rewards" /\ last.status = "ok"
    /\ last.caller # Deployer /\ store.minter = {last.caller}
    /\ store.provider[last.args[1]].total_earned = 2 * ONE_TOKEN
    /\ store.total_supply = 2 * ONE_TOKEN

-----------------------------------------------------------------------------
(* The order of the checks: calls that are wrong in two ways at once, made *)
(* by a contract without any role for tokens that are not its own, while   *)
(* the contract is paused and from within a sale's GAS transfer            *)

UOrder ==
    [ failures    |-> "all",
      trace_args  |-> TRUE,
      callers     |-> {"dao", "bot"},
      signers     |-> {"dao"},
      holders     |-> {"alice", "bot"},
      providers   |-> {"alice"},
      models      |-> {"gpt4"},
      swap_models |-> {"gpt4"},
      max_supply  |-> MaxLedgerSupply,
      max_reserve |-> MaxReserve,
      tokens      |-> {sha256("gpt4")},
      prices      |-> {Gas(99700000)},
      floors      |-> {Gas(80000000)},
      gas_amounts |-> {ONE_GAS},
      deposits    |-> {ONE_GAS},
      amounts     |-> {0, ONE_TOKEN},
      allowances  |-> {ONE_TOKEN},
      fees        |-> {DEFAULT_SWAP_FEE_BPS},
      assets      |-> {GAS_SCRIPT},
      data        |-> {NO_DATA},
      names       |-> {"home"},
      scores      |-> {DEFAULT_REPUTATION},
      qualities   |-> {MAX_QUALITY_SCORE},
      durations   |-> {MIN_LOCK_BLOCKS},
      block_steps |-> {MIN_LOCK_BLOCKS},
      sell_all    |-> FALSE,
      max_mints   |-> MaxMints ]

NextOrder ==
    \/ Pause(UOrder)
    \/ Resume_(UOrder)
    \/ UpdatePriceOracle(UOrder)
    \/ Mint(UOrder)
    \/ OnNEP17Payment(UOrder)
    \/ SellCompute(UOrder)
    \/ Transfer(UOrder)
    \/ SetPriceFloor(UOrder)
    \/ CalleeReturns

SpecOrder == Init /\ [][NextOrder]_vars

\* r is a failure with message err that wrote nothing
Refused(r, err) == ~r.ok /\ r.err = err /\ r.st = store

\* The entry points that assert the pause flag first: paused, they answer
\* "Contract is paused" to every call, authorized or not
PauseCheckedFirst ==
    \A cx \in Contexts(UOrder.callers, UOrder.signers), owner \in UOrder.holders,
       m \in UOrder.models, a \in UOrder.amounts :
        LET t == sha256(m) IN
        store.paused =>
            /\ Refused(sell_compute(store, cx, owner, m, a), "Contract is paused")
            /\ Refused(buy_compute(store, cx, owner, m, ONE_GAS), "Contract is paused")
            /\ Refused(burn(store, cx, owner, t, a), "Contract is paused")
            /\ Refused(lock(store, cx, owner, t, a, MIN_LOCK_BLOCKS), "Contract is paused")
            /\ Refused(unlock(store, cx, owner, t), "Contract is paused")
            /\ Refused(mint(store, cx, owner, m, a, MAX_QUALITY_SCORE), "Contract is paused")
            /\ Refused(mint_rewards(store, cx, owner, m, a), "Contract is paused")
            /\ Refused(update_provider_reputation(store, cx, owner, DEFAULT_REPUTATION),
                       "Contract is paused")
            /\ Refused(update_price_oracle(store, cx, m, Gas(a)), "Contract is paused")
            /\ Refused(register_provider(store, cx, "home"), "Contract is paused")

\* transfer looks at the amount before it looks at the pause flag, and at
\* the pause flag before it looks for a witness or an approval
TransferCheckOrder ==
    \A cx \in Contexts(UOrder.callers, UOrder.signers), from \in UOrder.holders,
       to \in UOrder.holders, a \in UOrder.amounts, t \in UOrder.tokens :
        LET r == transfer(store, cx, from, to, a, t)
            authorized == \/ check_witness(cx, from)
                          \/ _is_approved(store, from, t, cx.caller, a)
        IN  IF a <= 0 THEN Refused(r, "Amount must be positive")
            ELSE IF store.paused THEN Refused(r, "Contract is paused")
            ELSE ~authorized => Refused(r, "Not authorized")

\* set_price_floor, set_swap_fee, withdraw_gas and approve never look at the
\* pause flag: paused or not, they answer "Not authorized" to a caller who is
\* not the admin, respectively to a call the owner has not witnessed
PauseNeverChecked ==
    \A cx \in Contexts(UOrder.callers, UOrder.signers), owner \in UOrder.holders,
       m \in UOrder.models, p \in UOrder.floors, a \in UOrder.amounts :
        /\ ~_is_admin(store, cx.caller) =>
              /\ Refused(set_price_floor(store, cx, m, p), "Not authorized")
              /\ Refused(set_swap_fee(store, cx, DEFAULT_SWAP_FEE_BPS), "Not authorized")
              /\ Refused(withdraw_gas(store, cx, owner, ONE_GAS), "Not authorized")
        /\ ~check_witness(cx, owner) =>
              Refused(approve(store, cx, owner, cx.caller, a, sha256(m)), "Not authorized")

\* sell_compute looks for the seller's witness before it looks at the
\* reentrancy flag; buy_compute has no caller to check
SwapCheckOrder ==
    \A cx \in Contexts(UOrder.callers, UOrder.signers), seller \in UOrder.holders,
       m \in UOrder.models :
        (~store.paused /\ store.reentrancy) =>
            /\ Refused(sell_compute(store, cx, seller, m, ONE_TOKEN),
                       IF check_witness(cx, seller) THEN "Reentrancy detected"
                       ELSE "Not authorized")
            /\ Refused(buy_compute(store, cx, seller, m, ONE_GAS), "Reentrancy detected")

-----------------------------------------------------------------------------
(* Payments, checked under Spec                                            *)

\* What onNEP17Payment answers to every payment that can arrive in this
\* state: "Only GAS accepted" and nothing written to any caller but GAS;
\* without a model id the counter goes up by the amount and no token moves;
\* with a model id it succeeds exactly when buy_compute for the sender does,
\* and leaves what that buy_compute leaves: its tokens minted to the sender
\* and the counter up by the amount, once
PaymentChecked ==
    \A cx0 \in Contexts(USwap.callers, USwap.signers), via \in USwap.assets,
       from \in USwap.holders, data \in USwap.data, g \in USwap.gas_amounts :
        LET cx == [cx0 EXCEPT !.caller = via]
            r == onNEP17Payment(store, cx, from, g, data)
            b == buy_compute(store, cx, from, data, g)
        IN  IF via # GAS_SCRIPT THEN Refused(r, "Only GAS accepted")
            ELSE IF data = NO_DATA
            THEN /\ r.ok
                 /\ r.st = [store EXCEPT !.gas_reserve = @ + g]
            ELSE Affordable(data, g) =>
                 /\ r.ok = b.ok
                 /\ r.st = b.st
                 /\ r.ok => /\ _get_gas_reserve(r.st) = _get_gas_reserve(store) + g
                            /\ _get_balance(r.st, from, sha256(data))
                                  = _get_balance(store, from, sha256(data)) + b.ret
                            /\ b.ret > 0

\* A payment that was accepted came from GAS and raised the counter by its
\* amount; without a model id it left balances and supplies alone, with one
\* it minted to the sender what the amount less the fee buys; a payment that
\* failed wrote nothing
PaymentStep ==
    last'.op = "onNEP17Payment" =>
        IF last'.status = "fail" THEN store' = saved
        ELSE LET from == last'.args[1]
                 amount == last'.args[2]
                 data == last'.args[3]
             IN  /\ last'.caller = GAS_SCRIPT
                 /\ _get_gas_reserve(store') = _get_gas_reserve(store) + amount
                 /\ store'.gas_held = store.gas_held + amount
                 /\ IF data = NO_DATA
                    THEN /\ store'.balance = store.balance
                         /\ store'.supply = store.supply
                         /\ store'.total_supply = store.total_supply
                    ELSE LET t == sha256(data)
                             fee == MulDivFloor(amount, _get_swap_fee_bps(store), 10000)
                         IN  _get_balance(store', from, t) =
                               _get_balance(store, from, t)
                                 + TokensAtPrice(amount - fee, store.price[t])

\* C36: onNEP17Payment accepts a payment only from GAS and aborts otherwise;
\* without a model id in data it raises the reserve counter by exactly the
\* amount and mints nothing; with a model id it runs buy_compute for the
\* sender: the counter goes up by the amount once, not twice, and the sender
\* gets the tokens buy_compute mints for the amount
PaymentHandled ==
    []PaymentChecked /\ [][PaymentStep]_vars

\* The first payment the contract received named a model: the sender holds
\* the tokens, the counter and the GAS held are the amount paid
FirstPaymentBought ==
    /\ last.op = "onNEP17Payment" /\ last.status = "ok"
    /\ last.args[3] = "gpt4"
    /\ _get_gas_reserve(store) = last.args[2] /\ store.gas_held = last.args[2]
    /\ _get_balance(store, last.args[1], sha256("gpt4")) = 199400000
    /\ totalSupply(store) = 199400000

-----------------------------------------------------------------------------
(* The fee: the admin and another caller setting fees on both sides of the *)
(* limits, one account buying and selling at the fee in force              *)

UFee ==
    [ failures    |-> "all",
      trace_args  |-> TRUE,
      callers     |-> {"dao", "alice"},
      signers     |-> {"alice"},
      holders     |-> {"alice"},
      providers   |-> {"alice"},
      models      |-> {"gpt4"},
      swap_models |-> {"gpt4"},
      max_supply  |-> MaxSupply,
      max_reserve |-> MaxMarketReserve,
      tokens      |-> {sha256("gpt4")},
      prices      |-> {Gas(50000000)},
      floors      |-> {Gas(0)},
      gas_amounts |-> {ONE_GAS},
      deposits    |-> {ONE_GAS},
      amounts     |-> {},
      allowances  |-> {0},
      fees        |-> {0 - 1, 0, 5, MAX_SWAP_FEE_BPS, MAX_SWAP_FEE_BPS + 1},
      assets      |-> {GAS_SCRIPT},
      data        |-> {"gpt4"},
      names       |-> {"home"},
      scores      |-> {DEFAULT_REPUTATION},
      qualities   |-> {MAX_QUALITY_SCORE},
      durations   |-> {MIN_LOCK_BLOCKS},
      block_steps |-> {MIN_LOCK_BLOCKS},
      sell_all    |-> TRUE,
      max_mints   |-> MaxMints ]

NextFee ==
    \/ UpdatePriceOracle(UFee)
    \/ SetSwapFee(UFee)
    \/ OnNEP17Payment(UFee)
    \/ SellCompute(UFee)

SpecFee == Init /\ [][NextFee]_vars

\* The fee stored and the fee the swaps read are within [0, 500]; what
\* set_swap_fee answers to every call that can be made in this state
FeeInRange ==
    /\ store.swap_fee_bps >= 0 /\ store.swap_fee_bps <= 500
    /\ _get_swap_fee_bps(store) >= 0 /\ _get_swap_fee_bps(store) <= 500
    /\ \A cx \in Contexts(UFee.callers, UFee.signers), f \in UFee.fees :
          LET r == set_swap_fee(store, cx, f) IN
          IF cx.caller = store.admin /\ f >= 0 /\ f <= 500
          THEN r.ok /\ r.st.swap_fee_bps = f
          ELSE ~r.ok /\ r.st = store

\* The fee changes only in a successful set_swap_fee; a purchase mints at
\* least what 95% of the payment buys, a sale pays at least 95% of the
\* tokens' worth
FeeStep ==
    /\ store'.swap_fee_bps # store.swap_fee_bps
          => last'.op = "set_swap_fee" /\ last'.status = "ok" /\ last'.caller = store.admin
    /\ (last'.op = "onNEP17Payment" /\ last'.status = "ok") =>
          LET g == last'.args[2]
              price == get_current_price(store, last'.args[3])
              t == sha256(last'.args[3])
          IN  GetInt(store'.balance, <<last'.args[1], t>>)
                - GetInt(store.balance, <<last'.args[1], t>>)
                  >= TokensAtPrice(g - g \div 20, price)
    /\ (last'.op = "sell_compute" /\ last'.status = "ok") =>
          LET gross == GasAtPrice(last'.args[3], get_current_price(store, last'.args[2]))
          IN  gross - last'.ret <= gross \div 20

\* C31: the swap fee is within [0, 500] basis points in every reachable
\* state: 30 at deployment, changed only by set_swap_fee, which goes through
\* for the admin and a value within the range and for nobody and nothing
\* else; so no swap is charged more than 5% of the amount the fee is taken from
SwapFeeBounded ==
    []FeeInRange /\ [][FeeStep]_vars

\* A sale at the highest fee: exactly 5% of the tokens' worth was kept
SoldAtHighestFee ==
    /\ last.op = "sell_compute" /\ last.status = "ok"
    /\ store.swap_fee_bps = MAX_SWAP_FEE_BPS
    /\ last.ret > 0
    /\ LET gross == GasAtPrice(last.args[3], get_current_price(store, last.args[2]))
       IN  gross - last.ret = gross \div 20

-----------------------------------------------------------------------------
(* Authority: the admin and another caller at every admin entry point,     *)
(* the admin role changing hands                                           *)

UAuthority ==
    [ failures    |-> "all",
      trace_args  |-> TRUE,
      callers     |-> {"dao", "alice"},
      signers     |-> {"alice"},
      holders     |-> {"alice"},
      providers   |-> {"alice"},
      models      |-> {"gpt4"},
      swap_models |-> {"gpt4"},
      max_supply  |-> MaxPauseSupply,
      max_reserve |-> MaxPauseReserve,
      tokens      |-> {sha256("gpt4")},
      prices      |-> {Gas(99700000)},
      floors      |-> {Gas(80000000)},
      gas_amounts |-> {ONE_GAS},
      deposits    |-> {ONE_GAS},
      amounts     |-> {ONE_TOKEN},
      allowances  |-> {0},
      fees        |-> {5},
      assets      |-> {GAS_SCRIPT},
      data        |-> {NO_DATA},
      names       |-> {"home"},
      scores      |-> {DEFAULT_REPUTATION},
      qualities   |-> {MAX_QUALITY_SCORE},
      durations   |-> {MIN_LOCK_BLOCKS},
      block_steps |-> {MIN_LOCK_BLOCKS},
      sell_all    |-> FALSE,
      max_mints   |-> MaxMints ]

NextAuthority ==
    \/ Pause(UAuthority)
    \/ Resume_(UAuthority)
    \/ UpdateAdmin(UAuthority)
    \/ SetGovernance(UAuthority)
    \/ SetOracle(UAuthority)
    \/ SetMinter(UAuthority)
    \/ SetPriceFloor(UAuthority)
    \/ SetSwapFee(UAuthority)
    \/ OnNEP17Payment(UAuthority)
    \/ WithdrawGas(UAuthority)

SpecAuthority == Init /\ [][NextAuthority]_vars

AdminEntryPoints ==
    {"pause", "resume", "update_admin", "set_governance", "set_oracle", "set_minter",
     "set_price_floor", "set_swap_fee", "withdraw_gas"}

\* One address passes the admin check, the deployer after deployment, when
\* it is also the one oracle and the one minter; and what the nine admin
\* entry points answer to every call by anybody else in this state
AdminChecked ==
    /\ Cardinality({a \in Addresses : _is_admin(store, a)}) = 1
    /\ last.op = "deploy" =>
          /\ _is_admin(store, Deployer)
          /\ store.oracle = {Deployer} /\ store.minter = {Deployer}
    /\ \A cx \in Contexts(UAuthority.callers, UAuthority.signers),
          a \in UAuthority.callers, b \in BOOLEAN, m \in UAuthority.swap_models,
          p \in UAuthority.floors, f \in UAuthority.fees, to \in UAuthority.holders,
          g \in UAuthority.deposits :
          cx.caller # store.admin =>
              /\ Refused(pause(store, cx), "Not authorized")
              /\ Refused(resume(store, cx), "Not authorized")
              /\ Refused(update_admin(store, cx, a), "Not authorized")
              /\ Refused(set_governance(store, cx, a), "Not authorized")
              /\ Refused(set_oracle(store, cx, a, b), "Not authorized")
              /\ Refused(set_minter(store, cx, a, b), "Not authorized")
              /\ Refused(set_price_floor(store, cx, m, p), "Not authorized")
              /\ Refused(set_swap_fee(store, cx, f), "Not authorized")
              /\ Refused(withdraw_gas(store, cx, to, g), "Not authorized")

\* An admin entry point that went through was called by the admin of the
\* time, one that failed wrote nothing; the roles and the configuration
\* change in no other step; after update_admin(new) new is the one admin
AuthorityStep ==
    /\ last'.op \in AdminEntryPoints =>
          IF last'.status = "fail" THEN store' = store
          ELSE last'.caller = store.admin
    /\ (\/ store'.admin # store.admin
        \/ store'.paused # store.paused
        \/ store'.governance # store.governance
        \/ store'.oracle # store.oracle
        \/ store'.minter # store.minter
        \/ store'.min_price # store.min_price
        \/ store'.swap_fee_bps # store.swap_fee_bps)
          => last'.op \in AdminEntryPoints /\ last'.status # "fail"
    /\ (last'.op = "update_admin" /\ last'.status = "ok") =>
          \A a \in Addresses : _is_admin(store', a) <=> a = last'.args[1]

\* C34: pause, resume, update_admin, set_governance, set_oracle, set_minter,
\* set_price_floor, set_swap_fee and withdraw_gas called by anyone but the
\* current admin fail and change nothing, and the roles and the configuration
\* change in no other way; the deployer is the first admin, oracle and minter;
\* exactly one address is admin at any time, and after update_admin(new) it
\* is new and nobody else
AuthorityOnly ==
    []AdminChecked /\ [][AuthorityStep]_vars

\* The deployer, having handed the admin role over, is turned away
FormerAdminRejected ==
    /\ last.op = "withdraw_gas" /\ last.status = "fail" /\ last.err = "Not authorized"
    /\ store.admin # Deployer
    /\ store.gas_reserve >= ONE_GAS
    /\ \A cx \in Contexts(UAuthority.callers, UAuthority.signers) :
          cx.caller # store.admin => cx.caller = Deployer

-----------------------------------------------------------------------------
(* Allowances, checked under SpecTransfer                                  *)

\* No approval record holds 0 or less; what approve answers to every call
\* that can be made in this state: "Not authorized" and nothing written
\* without the owner's witness, otherwise the amount stored when it is > 0
\* and the record deleted when it is not, so that allowance reads 0
ApproveChecked ==
    /\ \A k \in DOMAIN store.approved : store.approved[k] > 0
    /\ \A cx \in Contexts(UTransfer.callers, UTransfer.signers),
          owner \in UTransfer.holders, spender \in UTransfer.callers,
          a \in UTransfer.allowances, t \in UTransfer.tokens :
          LET r == approve(store, cx, owner, spender, a, t)
              key == <<owner, t, spender>>
          IN  IF ~(owner = cx.signer \/ owner = cx.caller)
              THEN Refused(r, "Not authorized")
              ELSE /\ r.ok
                   /\ Has(r.st.approved, key) <=> a > 0
                   /\ allowance(r.st, owner, spender, t) = (IF a > 0 THEN a ELSE 0)
                   /\ \A k \in DOMAIN store.approved \ {key} :
                         Has(r.st.approved, k) /\ r.st.approved[k] = store.approved[k]

\* The approval records change in a successful approve witnessed by the
\* owner and in no other step; a transfer leaves every one of them as it
\* was; a transaction that faults takes its own approvals back with the rest
AllowanceStep ==
    /\ last'.status = "fail" => store'.approved = saved.approved
    /\ (last'.op = "transfer" /\ last'.status # "fail") => store'.approved = store.approved
    /\ (store'.approved # store.approved /\ last'.status # "fail") =>
          /\ last'.op = "approve" /\ last'.status = "ok"
          /\ last'.args[1] \in {last'.caller, last'.signer}
          /\ \A k \in (DOMAIN store.approved \cup DOMAIN store'.approved)
                        \ {<<last'.args[1], last'.args[4], last'.args[2]>>} :
                /\ Has(store.approved, k) /\ Has(store'.approved, k)
                /\ store'.approved[k] = store.approved[k]

\* C37: a transfer, by an approved spender or anybody else, changes no
\* approval record, so an allowance authorizes every later transfer of up to
\* its amount until the owner approves again; approve requires the owner's
\* witness and stores the amount only when it is > 0, deleting the record
\* otherwise, so that allowance reads 0
AllowanceNotSpent ==
    []ApproveChecked /\ [][AllowanceStep]_vars

\* A spender has moved the owner's two tokens under an allowance of one,
\* and the allowance is still one
AllowanceUsedTwice ==
    /\ Idle /\ last.op = "transfer" /\ last.status = "ok"
    /\ last.args[1] \notin {last.caller, last.signer}
    /\ last.args[3] = ONE_TOKEN
    /\ allowance(store, last.args[1], last.caller, last.args[4]) = ONE_TOKEN
    /\ _get_balance(store, last.args[1], last.args[4]) = 0
    /\ _get_balance(store, last.args[2], last.args[4]) = 2 * ONE_TOKEN
    /\ last.args[2] # last.caller

-----------------------------------------------------------------------------
(* Ownership: a token, its lock and its allowances against callers who     *)
(* sign for themselves, for the owner, or not at all                       *)

UOwner ==
    [ failures    |-> "none",
      trace_args  |-> TRUE,
      callers     |-> {"dao"},
      signers     |-> {"dao", "alice"},
      holders     |-> {"alice", "bot"},
      providers   |-> {"alice"},
      models      |-> {"gpt4"},
      swap_models |-> {"gpt4"},
      max_supply  |-> MaxPauseSupply,
      max_reserve |-> MaxPauseReserve,
      tokens      |-> {sha256("gpt4")},
      prices      |-> {Gas(99700000)},
      floors      |-> {Gas(0)},
      gas_amounts |-> {ONE_GAS},
      deposits    |-> {ONE_GAS},
      amounts     |-> {ONE_TOKEN},
      allowances  |-> {0, ONE_TOKEN},
      fees        |-> {DEFAULT_SWAP_FEE_BPS},
      assets      |-> {GAS_SCRIPT},
      data        |-> {NO_DATA},
      names       |-> {"home"},
      scores      |-> {DEFAULT_REPUTATION},
      qualities   |-> {MAX_QUALITY_SCORE},
      durations   |-> {MIN_LOCK_BLOCKS},
      block_steps |-> {MIN_LOCK_BLOCKS},
      sell_all    |-> FALSE,
      max_mints   |-> MaxMints ]

NextOwner ==
    \/ Mint(UOwner)
    \/ UpdatePriceOracle(UOwner)
    \/ OnNEP17Payment(UOwner)
    \/ Approve(UOwner)
    \/ Transfer(UOwner)
    \/ Burn(UOwner)
    \/ SellCompute(UOwner)
    \/ Lock(UOwner)
    \/ Unlock(UOwner)
    \/ AdvanceBlock(UOwner)
    \/ CalleeReturns

SpecOwner == Init /\ [][NextOwner]_vars

\* Without the owner's witness burn, sell_compute, lock, unlock and approve
\* refuse whatever else holds, and transfer refuses unless the caller holds
\* an allowance of at least the amount
OwnerChecked ==
    \A cx \in Contexts(UOwner.callers, UOwner.signers), owner \in UOwner.holders,
       t \in UOwner.tokens, a \in UOwner.amounts :
        ~check_witness(cx, owner) =>
            /\ Refused(burn(store, cx, owner, t, a), "Not authorized")
            /\ \A m \in UOwner.swap_models :
                  Refused(sell_compute(store, cx, owner, m, a), "Not authorized")
            /\ \A d \in UOwner.durations :
                  Refused(lock(store, cx, owner, t, a, d), "Not authorized")
            /\ Refused(unlock(store, cx, owner, t), "Not authorized")
            /\ \A sp \in UOwner.callers, al \in UOwner.allowances :
                  Refused(approve(store, cx, owner, sp, al, t), "Not authorized")
            /\ \A to \in UOwner.holders :
                  allowance(store, owner, cx.caller, t) < a
                      => Refused(transfer(store, cx, owner, to, a, t), "Not authorized")

\* The lock of (owner, class), or the absence of one
LockRecordOf(s, owner, token_id) ==
    IF Has(s.lock, <<owner, token_id>>) THEN <<s.lock[<<owner, token_id>>]>> ELSE <<>>

\* A step that takes from an owner's balance is a transfer, burn or sale
\* witnessed by the owner, or a transfer by a caller whose allowance from the
\* owner covers what was taken; a step that changes the owner's lock is a
\* lock or unlock witnessed by the owner; a step that changes an allowance
\* the owner granted is an approve witnessed by the owner.  A transaction
\* that faults puts back what it had changed
OwnerStep ==
    /\ last'.status = "fail" => store' = saved
    /\ last'.status # "fail" =>
         \A owner \in UOwner.holders, t \in UOwner.tokens :
            LET witnessed == owner \in {last'.caller, last'.signer}
                taken == _get_balance(store, owner, t) - _get_balance(store', owner, t)
            IN  /\ taken > 0 =>
                      /\ last'.op \in {"transfer", "burn", "sell_compute"}
                      /\ \/ witnessed
                         \/ /\ last'.op = "transfer"
                            /\ last'.args[1] = owner
                            /\ last'.args[3] = taken
                            /\ allowance(store, owner, last'.caller, t) >= taken
                /\ (\/ LockRecordOf(store', owner, t) # LockRecordOf(store, owner, t)
                    \/ _get_locked_amount(store', owner, t)
                            # _get_locked_amount(store, owner, t)) =>
                      /\ last'.op \in {"lock", "unlock"}
                      /\ witnessed
                /\ \A sp \in Accounts \cup Contracts :
                      (\/ Has(store'.approved, <<owner, t, sp>>)
                              # Has(store.approved, <<owner, t, sp>>)
                       \/ allowance(store', owner, sp, t) # allowance(store, owner, sp, t)) =>
                          /\ last'.op = "approve"
                          /\ witnessed

-----------------------------------------------------------------------------
(* The ledger: two classes, every operation that moves balances or supply  *)

ULedger ==
    [ failures    |-> "none",
      trace_args  |-> FALSE,
      callers     |-> {"dao"},
      signers     |-> {"alice"},
      holders     |-> {"alice", "bot"},
      providers   |-> {"alice"},
      models      |-> {"gpt4", "llama"},
      swap_models |-> {"gpt4"},
      max_supply  |-> MaxLedgerSupply,
      max_reserve |-> MaxReserve,
      tokens      |-> {sha256("gpt4"), sha256("llama")},
      prices      |-> {Gas(99700000)},
      floors      |-> {Gas(0)},
      gas_amounts |-> {ONE_GAS},
      deposits    |-> {ONE_GAS},
      amounts     |-> {ONE_TOKEN},
      allowances  |-> {0},
      fees        |-> {DEFAULT_SWAP_FEE_BPS},
      assets      |-> {GAS_SCRIPT},
      data        |-> {"gpt4"},
      names       |-> {"home"},
      scores      |-> {DEFAULT_REPUTATION},
      qualities   |-> {MAX_QUALITY_SCORE},
      durations   |-> {MIN_LOCK_BLOCKS},
      block_steps |-> {MIN_LOCK_BLOCKS},
      sell_all    |-> FALSE,
      max_mints   |-> MaxMints ]

NextLedger ==
    \/ Mint(ULedger)
    \/ RegisterProvider(ULedger)
    \/ MintRewards(ULedger)
    \/ UpdatePriceOracle(ULedger)
    \/ OnNEP17Payment(ULedger)
    \/ SellCompute(ULedger)
    \/ Burn(ULedger)
    \/ Transfer(ULedger)
    \/ CalleeReturns
    \/ CalleeFaults

SpecLedger == Init /\ [][NextLedger]_vars

\* C1: between invocations of mint, mint_rewards, buy_compute, sell_compute,
\* burn and transfer, successful or aborted, the stored supply of every class
\* is the sum of the stored balances of that class over all owners
ClassSupplyIsSumOfBalances ==
    Idle => \A t \in TokenIds : tokenSupply(store, t) = BalanceSum(store, t)

\* Two owners hold the same class after a transfer
TwoHoldersAfterTransfer ==
    /\ Idle
    /\ last.op = "transfer" /\ last.status = "ok"
    /\ \E t \in TokenIds :
        /\ _get_balance(store, "alice", t) > 0
        /\ _get_balance(store, "bot", t) > 0
        /\ tokenSupply(store, t) > _get_balance(store, "alice", t)

\* C2: between invocations the stored total supply is the sum of the stored
\* class supplies, and neither the total nor any class supply is negative
TotalSupplyIsSumOfClasses ==
    Idle => /\ totalSupply(store) = SupplySum(store)
            /\ totalSupply(store) >= 0
            /\ \A t \in TokenIds : tokenSupply(store, t) >= 0

\* Both classes are in supply, one of them minted again after it was burnt
TwoClassesAfterBurn ==
    /\ Idle
    /\ last.status = "ok"
    /\ \A t \in TokenIds : tokenSupply(store, t) > 0
    /\ \E t \in TokenIds :
        /\ store.token_data[t].total_mints > 1
        /\ tokenSupply(store, t) = ONE_TOKEN

\* C32: balances are stored sparsely: in every reachable state a balance
\* record of an (owner, class) exists exactly when the balance is > 0, no
\* record holds 0 or less, and the owner's held-classes index lists a class
\* exactly when the owner's balance of it is > 0, each class once
SparseBalances ==
    /\ \A k \in DOMAIN store.balance : store.balance[k] > 0
    /\ \A owner \in Addresses \cup DOMAIN store.account_tokens :
          LET tokens == _get_account_tokens(store, owner) IN
          /\ Has(store.account_tokens, owner) => tokens # <<>>
          /\ \A t \in TokenIds :
                /\ Has(store.balance, <<owner, t>>) <=> _get_balance(store, owner, t) > 0
                /\ SeqContains(tokens, t) <=> _get_balance(store, owner, t) > 0
          /\ \A i, j \in 1..Len(tokens) : tokens[i] = tokens[j] => i = j
          /\ \A i \in 1..Len(tokens) : tokens[i] \in TokenIds

\* The whole supply of one class has been burnt: no record of a
\* balance of it is left, and the index of the one holder there is lists
\* the other class alone
FirstClassGone ==
    /\ Idle /\ last.op = "burn" /\ last.status = "ok"
    /\ Has(store.supply, sha256("gpt4")) /\ tokenSupply(store, sha256("gpt4")) = 0
    /\ \A owner \in Addresses : ~Has(store.balance, <<owner, sha256("gpt4")>>)
    /\ \E owner \in Addresses :
        /\ _get_account_tokens(store, owner) = <<sha256("llama")>>
        /\ store.token_data[sha256("gpt4")].total_mints = 1
        /\ \A other \in Addresses \ {owner} : ~Has(store.account_tokens, other)

\* C33: in every reachable state balanceOf(owner), the sum of the balances
\* over the owner's held-classes index, is the sum over all classes of
\* balanceOfToken(owner, class)
BalanceOfSumsAllClasses ==
    \A owner \in Addresses :
        balanceOf(store, owner)
            = SumOver(TokenIds, [t \in TokenIds |-> balanceOfToken(store, owner, t)])

\* An owner holding two classes, listed in the index in the order they came
HoldsTwoClasses ==
    \E owner \in Addresses :
        /\ _get_account_tokens(store, owner) = <<sha256("llama"), sha256("gpt4")>>
        /\ balanceOfToken(store, owner, sha256("gpt4")) > 0
        /\ balanceOfToken(store, owner, sha256("llama")) > 0
        /\ balanceOf(store, owner) = 2 * ONE_TOKEN

-----------------------------------------------------------------------------
(* Locks: one class, every operation that moves balances or locks          *)

ULock ==
    [ failures    |-> "none",
      trace_args  |-> FALSE,
      callers     |-> {"dao"},
      signers     |-> {"alice"},
      holders     |-> {"alice", "bot"},
      providers   |-> {"alice"},
      models      |-> {"gpt4"},
      swap_models |-> {"gpt4"},
      max_supply  |-> MaxLedgerSupply,
      max_reserve |-> MaxReserve,
      tokens      |-> {sha256("gpt4")},
      prices      |-> {Gas(99700000)},
      floors      |-> {Gas(0)},
      gas_amounts |-> {ONE_GAS},
      deposits    |-> {ONE_GAS},
      amounts     |-> {ONE_TOKEN},
      allowances  |-> {0},
      fees        |-> {DEFAULT_SWAP_FEE_BPS},
      assets      |-> {GAS_SCRIPT},
      data        |-> {"gpt4"},
      names       |-> {"home"},
      scores      |-> {DEFAULT_REPUTATION},
      qualities   |-> {MAX_QUALITY_SCORE},
      durations   |-> {MIN_LOCK_BLOCKS},
      block_steps |-> {MIN_LOCK_BLOCKS},
      sell_all    |-> FALSE,
      max_mints   |-> MaxMints ]

NextLock ==
    \/ Mint(ULock)
    \/ RegisterProvider(ULock)
    \/ MintRewards(ULock)
    \/ UpdatePriceOracle(ULock)
    \/ OnNEP17Payment(ULock)
    \/ SellCompute(ULock)
    \/ Burn(ULock)
    \/ Transfer(ULock)
    \/ Lock(ULock)
    \/ Unlock(ULock)
    \/ AdvanceBlock(ULock)
    \/ CalleeReturns
    \/ CalleeFaults

SpecLock == Init /\ [][NextLock]_vars

\* C40: the two storage records that describe a lock stay consistent: a
\* lock record exists for (owner, class) exactly when a total-locked record
\* exists for it, the total-locked value equals the lock record's amount,
\* and that amount is > 0
LockRecordsConsistent ==
    /\ DOMAIN store.lock = DOMAIN store.total_locked
    /\ \A owner \in Accounts \cup Contracts, t \in ULock.tokens :
          /\ Has(store.lock, <<owner, t>>) <=> Has(store.total_locked, <<owner, t>>)
          /\ Has(store.lock, <<owner, t>>) =>
                /\ _get_locked_amount(store, owner, t) = store.lock[<<owner, t>>].amount
                /\ store.lock[<<owner, t>>].amount > 0

\* An owner has locked a second token a hundred blocks after the first:
\* one lock record of two tokens, and a locked total of two tokens
LockedTwiceOneTotal ==
    /\ Idle /\ last.op = "lock" /\ last.status = "ok"
    /\ \E owner \in ULock.holders, t \in ULock.tokens :
          /\ Has(store.lock, <<owner, t>>) /\ Has(store.total_locked, <<owner, t>>)
          /\ store.lock[<<owner, t>>].amount = 2 * ONE_TOKEN
          /\ store.total_locked[<<owner, t>>] = 2 * ONE_TOKEN
          /\ store.lock[<<owner, t>>].created_at < height

\* C3: in every state reached by lock, unlock, transfer, burn, sell_compute,
\* buy_compute, mint and mint_rewards, every owner's balance of every class is
\* at least the locked amount, so availableBalanceOf is never negative
BalanceCoversLocked ==
    \A owner \in Addresses, t \in TokenIds :
        /\ _get_balance(store, owner, t) >= _get_locked_amount(store, owner, t)
        /\ availableBalanceOf(store, owner, t) >= 0

\* An owner has moved everything but the locked part
OnlyLockedLeft ==
    /\ Idle
    /\ last.op \in {"transfer", "burn", "sell_compute"} /\ last.status = "ok"
    /\ \E owner \in Addresses, t \in TokenIds :
        /\ _get_locked_amount(store, owner, t) > 0
        /\ availableBalanceOf(store, owner, t) = 0

-----------------------------------------------------------------------------
(* The pause flag: every mutating entry point, paused and not              *)

UPause ==
    [ failures    |-> "paused",
      trace_args  |-> FALSE,
      callers     |-> {"dao"},
      signers     |-> {"alice"},
      holders     |-> {"alice"},
      providers   |-> {"alice"},
      models      |-> {"gpt4"},
      swap_models |-> {"gpt4"},
      max_supply  |-> MaxPauseSupply,
      max_reserve |-> MaxPauseReserve,
      tokens      |-> {sha256("gpt4")},
      prices      |-> {Gas(99700000)},
      floors      |-> {Gas(0)},
      gas_amounts |-> {ONE_GAS},
      deposits    |-> {ONE_GAS},
      amounts     |-> {ONE_TOKEN},
      allowances  |-> {MIN_SWAP_AMOUNT},
      fees        |-> {DEFAULT_SWAP_FEE_BPS},
      assets      |-> {GAS_SCRIPT},
      data        |-> {NO_DATA},
      names       |-> {"home"},
      scores      |-> {DEFAULT_REPUTATION},
      qualities   |-> {MAX_QUALITY_SCORE},
      durations   |-> {MIN_LOCK_BLOCKS},
      block_steps |-> {MIN_LOCK_BLOCKS},
      sell_all    |-> FALSE,
      max_mints   |-> MaxMints ]

NextPause ==
    \/ Pause(UPause)
    \/ Resume_(UPause)
    \/ Transfer(UPause)
    \/ Approve(UPause)
    \/ BuyCompute(UPause)
    \/ SellCompute(UPause)
    \/ Mint(UPause)
    \/ Burn(UPause)
    \/ Lock(UPause)
    \/ Unlock(UPause)
    \/ UpdatePriceOracle(UPause)
    \/ SetPriceFloor(UPause)
    \/ SetSwapFee(UPause)
    \/ RegisterProvider(UPause)
    \/ MintRewards(UPause)
    \/ UpdateProviderReputation(UPause)
    \/ WithdrawGas(UPause)
    \/ OnNEP17Payment(UPause)

SpecPause == Init /\ [][NextPause]_vars

\* The entry points that assert the pause flag is clear
PauseGated ==
    {"transfer", "buy_compute", "sell_compute", "mint", "burn", "lock", "unlock",
     "update_price_oracle", "register_provider", "mint_rewards",
     "update_provider_reputation"}

\* The mutating entry points that never read the pause flag
PauseBlind == {"approve", "set_price_floor", "set_swap_fee", "withdraw_gas"}

====
